---------------------------- MODULE Spec2Model ----------------------------
(***************************************************************************)
(* SOLAR controller, serial protocol client.                               *)
(*                                                                         *)
(* Two programs are modelled: SOLAR_GUI.py (class SOLARGUI, "V1") and      *)
(* SOLAR_GUI_V3.py (class SolarController, "V3").  The variable `variant`  *)
(* says which of the two programs a behaviour is a run of.                 *)
(*                                                                         *)
(* Text is a sequence of pieces; see "Texts" below.                         *)
(***************************************************************************)
EXTENDS Integers, Sequences, FiniteSets, TLC

(***************************************************************************)
(* Bounds of the environment.                                              *)
(***************************************************************************)
\* connections the user may open in one run
MaxConn == 2
\* lines the device may send in one run of the connection and log scenarios
MaxRx == 2
\* lines the device may send in one run of the dispatcher scenarios
MaxFeed == 1
\* times the user may press a button (Connect / Disconnect, Refresh, Clear Log) or
\* flip the DEBUG filter in one run
MaxUser == 2
\* longest payload after a tag in the dispatcher scenarios
MaxPayload == 2
\* commands the user may issue in one run of the command scenarios
MaxCmd == 1
\* commands the V1 demo threads may schedule in one run
MaxDemo == 3
\* V1 demo threads started in one run
MaxDemoThreads == 2
\* toggle_connection calls pending under root.after(100, ...) at one time
MaxPending == 1
\* changes the user may make to the entry widgets in one run
MaxEdit == 3
\* times the user may press a demo button (a demo, Stop Demo) in one run of the
\* restart scenario
MaxPress == 3

(***************************************************************************)
(* Text helpers: Python's str methods, int() and int formatting.           *)
(***************************************************************************)
DigitChars == <<"0", "1", "2", "3", "4", "5", "6", "7", "8", "9">>

IsDigit(c) == \E i \in 1..10 : DigitChars[i] = c

DigitVal(c) == (CHOOSE i \in 1..10 : DigitChars[i] = c) - 1

Whitespace == {" ", "\t", "\r", "\n"}

\* str.startswith
StartsWith(s, p) == Len(s) >= Len(p) /\ SubSeq(s, 1, Len(p)) = p

\* p in s
Contains(s, p) ==
    \E i \in 1..(Len(s) - Len(p) + 1) : SubSeq(s, i, i + Len(p) - 1) = p

\* index of the first c in s, 0 when there is none
IndexOf(s, c) ==
    IF \E i \in 1..Len(s) : s[i] = c
    THEN CHOOSE i \in 1..Len(s) : s[i] = c /\ \A j \in 1..(i - 1) : s[j] # c
    ELSE 0

\* s.split(c, 1)[1], for s that holds a c
AfterFirst(s, c) == SubSeq(s, IndexOf(s, c) + 1, Len(s))

\* s.split(c)[0]
BeforeFirst(s, c) ==
    IF IndexOf(s, c) = 0 THEN s ELSE SubSeq(s, 1, IndexOf(s, c) - 1)

\* s.split(c)[1], for s that holds a c
SplitSecond(s, c) == BeforeFirst(AfterFirst(s, c), c)

\* str.strip()
Strip(s) ==
    LET keep == {i \in 1..Len(s) : s[i] \notin Whitespace}
    IN  IF keep = {} THEN <<>>
        ELSE LET lo == CHOOSE i \in keep : \A j \in keep : i <= j
                 hi == CHOOSE i \in keep : \A j \in keep : j <= i
             IN  SubSeq(s, lo, hi)

RECURSIVE DigitsValue(_)
DigitsValue(s) ==
    IF s = <<>> THEN 0
    ELSE LET n == Len(s)
         IN  IF s[n] = "_" THEN DigitsValue(SubSeq(s, 1, n - 1))
             ELSE 10 * DigitsValue(SubSeq(s, 1, n - 1)) + DigitVal(s[n])

\* the digit part of an int() literal: digits, single underscores between them
IsDigitString(s) ==
    /\ s # <<>>
    /\ IsDigit(s[1])
    /\ IsDigit(s[Len(s)])
    /\ \A i \in 1..Len(s) : IsDigit(s[i]) \/ s[i] = "_"
    /\ \A i \in 1..(Len(s) - 1) : ~(s[i] = "_" /\ s[i + 1] = "_")

\* int(t) for a text t without surrounding whitespace; [ok |-> FALSE] stands for
\* ValueError
ParseStripped(t) ==
    LET signed == t # <<>> /\ t[1] \in {"+", "-"}
        body == IF signed THEN SubSeq(t, 2, Len(t)) ELSE t
    IN  IF IsDigitString(body)
        THEN [ok |-> TRUE,
              val |-> IF signed /\ t[1] = "-" THEN 0 - DigitsValue(body)
                      ELSE DigitsValue(body)]
        ELSE [ok |-> FALSE, val |-> 0]

\* int(s): the surrounding whitespace is dropped (once), the rest is parsed
ParseInt(s) == CHOOSE r \in {ParseStripped(t) : t \in {Strip(s)}} : TRUE

RECURSIVE NatStr(_)
NatStr(n) ==
    IF n < 10 THEN <<DigitChars[n + 1]>>
    ELSE NatStr(n \div 10) \o <<DigitChars[(n % 10) + 1]>>

\* str(n), f"{n}"
Str(n) == IF n < 0 THEN <<"-">> \o NatStr(0 - n) ELSE NatStr(n)

\* f"{n:03d}" for n >= 0
Pad3(n) ==
    LET d == NatStr(n)
    IN  IF Len(d) >= 3 THEN d
        ELSE IF Len(d) = 2 THEN <<"0">> \o d ELSE <<"0", "0">> \o d

\* all sequences over S of length at most n
RECURSIVE SeqsUpTo(_, _)
SeqsUpTo(S, n) ==
    IF n = 0 THEN {<<>>}
    ELSE LET shorter == SeqsUpTo(S, n - 1)
         IN  shorter \cup {Append(s, c) : s \in {t \in shorter : Len(t) = n - 1}, c \in S}


(***************************************************************************)
(* Texts.  A text the code only copies (a literal of the source) is one    *)
(* piece; device-supplied text, and every text the code inspects, has one  *)
(* code point per piece.                                                   *)
(***************************************************************************)
T_VER == <<"V", "E", "R", ":">>
T_TOTAL == <<"T", "O", "T", "A", "L", ":">>
T_STATE == <<"S", "T", "A", "T", "E", ":">>
T_INA226 == <<"I", "N", "A", "2", "2", "6", ":">>
T_GROUP_TOTAL == <<"G", "R", "O", "U", "P", "_", "T", "O", "T", "A", "L", ":">>
T_FRAME_COUNT == <<"F", "R", "A", "M", "E", "_", "C", "O", "U", "N", "T", ":">>
T_INTERFRAME_DELAY ==
    <<"I", "N", "T", "E", "R", "F", "R", "A", "M", "E", "_", "D", "E", "L", "A", "Y", ":">>
T_EOT == <<"E", "O", "T">>
T_PROGRAM_ACK == <<"P", "R", "O", "G", "R", "A", "M", "_", "A", "C", "K", ":">>
T_FRAME_SET == <<"F", "R", "A", "M", "E", "_", "S", "E", "T", ":">>
T_ERR == <<"E", "R", "R", ":">>
T_ERROR == <<"E", "R", "R", "O", "R", ":">>
T_EMERGENCY == <<"E", "M", "E", "R", "G", "E", "N", "C", "Y", ":">>
T_DEBUG == <<"D", "E", "B", "U", "G", ":">>
T_HEADER == <<"=", "=", "=">>
T_POWER == <<"P", "o", "w", "e", "r", ":">>

\* the texts of the program's own state
Unknown == <<"U", "n", "k", "n", "o", "w", "n">>
Dev000 == <<"0", "0", "0">>
Dev001 == <<"0", "0", "1">>
\* "000 - All"
AllEntry == <<"0", "0", "0", " ", "-", " ", "All">>
\* f"{i:03d} - Device {i}"
DeviceEntry(i) == Pad3(i) \o <<" ", "-", " ", "Device", " ">> \o Str(i)
\* the port the user selected, and no selection
PortName == <<"COM3">>
NoPort == <<>>
\* datetime.now().strftime("[%H:%M:%S]") and strftime("%H:%M:%S"): no space in either
Stamp3 == <<"[", "1", "2", ":", "0", "0", ":", "0", "0", "]">>
Stamp1 == <<"1", "2", ":", "0", "0", ":", "0", "0">>
NL == "\n"

VARIABLES
    variant,        \* "V1" (SOLAR_GUI.py) or "V3" (SOLAR_GUI_V3.py)
    serial_port,    \* self.serial_port: 0 is None, n > 0 the n-th serial.Serial object
    is_connected,   \* self.is_connected
    running,        \* V3 self.running
    read_thread,    \* self.read_thread: 0 is None, n > 0 the n-th reader thread
    open,           \* the serial.Serial objects whose handle is open (is_open)
    nconn,          \* serial.Serial objects created so far
    readers,        \* reader threads, in order of creation: where each one stands
    mainpc,         \* the interactive thread: "idle", or "joining" inside V3 disconnect()
    message_queue,  \* V3 self.message_queue
    tkq,            \* V1: the callbacks queued with root.after(0, ...), oldest first
    timers,         \* callbacks pending under root.after(ms > 0, ...), by name
    gui,            \* device state, Tk variables, combobox values and the log
    tx,             \* the calls of serial_port.write, in order
    demo_running,   \* V1 self.demo_running
    demos,          \* V1 demo threads, in order of creation
    stop_signal,    \* V1: a demo was told to stop, and no demo was started since
    ev,             \* the handler of the interactive thread that ran last, its inputs
    exported,       \* V3: the text of the file export_log wrote last
    handed,         \* the lines the readers handed off, in order of hand-off
    dispatched,     \* the lines the dispatcher processed, in order
    nrx,            \* lines the device has sent
    ncmd,           \* commands the user has issued
    nuser,          \* times the user has pressed Connect / Disconnect or Refresh
    nedit           \* times the user has changed an entry widget

vars ==
    <<variant, serial_port, is_connected, running, read_thread, open, nconn, readers,
      mainpc, message_queue, tkq, timers, gui, tx, demo_running, demos, stop_signal, ev,
      exported, handed, dispatched, nrx, ncmd, nuser, nedit>>

connVars == <<serial_port, is_connected, running, read_thread, open, nconn>>
demoVars == <<demo_running, demos, stop_signal>>
histVars == <<handed, dispatched>>
cntVars == <<nrx, ncmd, nuser, nedit>>

(***************************************************************************)
(* V3: the log (SOLAR_GUI_V3.py, "Log Methods").                           *)
(***************************************************************************)
\* should_filter_message
V3_should_filter_message(g, message) ==
    IF g.debug_filter_var
    THEN StartsWith(message, T_DEBUG) \/ Contains(message, T_DEBUG)
    ELSE FALSE

\* append_to_log: one line of the text widget, with its tag
V3_append_to_log(g, message, tag) ==
    [g EXCEPT !.log_text = Append(@, <<message \o <<NL>>, tag>>)]

\* a log_message that puts the newest entry first
V3_log_message_newest_first(g, message, tag) ==
    LET full_message == Stamp3 \o <<" ">> \o message
        g1 == [g EXCEPT !.log_buffer = <<<<full_message, tag>>>> \o @]
    IN  IF ~V3_should_filter_message(g1, message)
        THEN V3_append_to_log(g1, full_message, tag)
        ELSE g1

\* log_message(message, tag); tag "none" is None
V3_log_message(g, message, tag) ==
    LET full_message == Stamp3 \o <<" ">> \o message
        g1 == [g EXCEPT !.log_buffer = Append(@, <<full_message, tag>>)]
    IN  IF ~V3_should_filter_message(g1, message)
        THEN V3_append_to_log(g1, full_message, tag)
        ELSE g1

\* the loop of refresh_log_display over the buffer: message.split(" ", 1) gives
\* the text after the timestamp, which the filter is asked about
RECURSIVE V3_redisplay(_, _)
V3_redisplay(g, buffer) ==
    IF buffer = <<>> THEN g
    ELSE LET message == Head(buffer)[1]
             tag == Head(buffer)[2]
             original_msg == IF IndexOf(message, " ") # 0
                             THEN AfterFirst(message, " ")
                             ELSE message
         IN  V3_redisplay(IF ~V3_should_filter_message(g, original_msg)
                          THEN V3_append_to_log(g, message, tag)
                          ELSE g,
                          Tail(buffer))

\* a refresh that does not empty the text widget first
V3_refresh_log_display_keeps_text(g) == V3_redisplay(g, g.log_buffer)

\* refresh_log_display()
V3_refresh_log_display(g) == V3_redisplay([g EXCEPT !.log_text = <<>>], g.log_buffer)

(***************************************************************************)
(* V3: the lists the dispatcher refreshes ("UI Update Methods").           *)
(***************************************************************************)
\* [f(i) for i in range(1, total + 1)]
DeviceEntries(total) == [i \in 1..total |-> DeviceEntry(i)]

V3_update_servo_device_list(g) ==
    LET devices == <<AllEntry>> \o DeviceEntries(g.total_devices)
        g1 == [g EXCEPT !.servo_device_values = devices]
    IN  IF g1.servo_target_mode = "all"
        THEN [g1 EXCEPT !.servo_device_var = AllEntry]
        ELSE g1

V3_update_led_device_list(g) ==
    LET g1 == [g EXCEPT !.led_device_values = DeviceEntries(g.total_devices)]
    IN  IF g1.total_devices >= 1
        THEN [g1 EXCEPT !.led_device_var = DeviceEntry(1)]
        ELSE [g1 EXCEPT !.led_device_var = <<>>]

V3_update_group_id_list(g) ==
    LET group_total == IF g.group_total_var < 1 THEN 1 ELSE g.group_total_var
        g1 == [g EXCEPT !.group_id_values = [i \in 1..group_total |-> Str(i)]]
        current_group_id == ParseInt(g1.group_id_var)
    IN  IF current_group_id.ok
        THEN IF current_group_id.val > group_total
             THEN [g1 EXCEPT !.group_id_var = <<"1">>]
             ELSE g1
        ELSE [g1 EXCEPT !.group_id_var = <<"1">>]

(***************************************************************************)
(* V3: the dispatcher.                                                     *)
(***************************************************************************)
\* handle_serial_message(message)
V3_handle_serial_message(g, message) ==
    LET g0 == V3_log_message(g, <<"<< ">> \o message, "none")
        payload == AfterFirst(message, ":")
        n == ParseInt(payload)
    IN  IF StartsWith(message, T_VER)
        THEN V3_log_message(g0, <<"Firmware Version: ">> \o payload, "success")
        ELSE IF StartsWith(message, T_TOTAL)
        THEN IF n.ok
             THEN V3_update_led_device_list(
                      V3_update_servo_device_list([g0 EXCEPT !.total_devices = n.val]))
             ELSE g0
        ELSE IF StartsWith(message, T_STATE)
        THEN [g0 EXCEPT !.system_state = payload]
        ELSE IF StartsWith(message, T_GROUP_TOTAL)
        THEN IF n.ok
             THEN V3_update_group_id_list([g0 EXCEPT !.group_total_var = n.val])
             ELSE g0
        ELSE IF StartsWith(message, T_FRAME_COUNT)
        THEN IF n.ok THEN [g0 EXCEPT !.frame_count_var = n.val] ELSE g0
        ELSE IF StartsWith(message, T_INTERFRAME_DELAY)
        THEN IF n.ok THEN [g0 EXCEPT !.interframe_delay_var = n.val] ELSE g0
        ELSE IF StartsWith(message, T_EOT)
        THEN V3_log_message(g0, <<"Command completed successfully">>, "success")
        ELSE IF StartsWith(message, T_PROGRAM_ACK)
        THEN V3_log_message(g0, <<"Program execution completed">>, "success")
        ELSE IF StartsWith(message, T_FRAME_SET)
        THEN V3_log_message(g0, <<"Frame settings updated">>, "success")
        ELSE IF StartsWith(message, T_ERR) \/ StartsWith(message, T_ERROR)
        THEN V3_log_message(g0, message, "error")
        ELSE g0

\* one message of the queue, as process_queue's loop body treats it; d holds the
\* gui state and the lines handed to handle_serial_message so far
V3_queue_item(d, item) ==
    IF item[1] = "serial"
    THEN [gui |-> V3_handle_serial_message(d.gui, item[2]),
          dispatched |-> Append(d.dispatched, item[2])]
    ELSE IF item[1] = "error"
    THEN [d EXCEPT !.gui = V3_log_message(@, item[2], "error")]
    ELSE d

\* a drain that takes the newest message first
RECURSIVE V3_drain_newest_first(_, _)
V3_drain_newest_first(d, q) ==
    IF q = <<>> THEN d
    ELSE V3_drain_newest_first(V3_queue_item(d, q[Len(q)]), SubSeq(q, 1, Len(q) - 1))

\* process_queue's loop: get_nowait() until the queue is empty, oldest first; the
\* oldest message is handled (once), then the loop goes on with what that left
RECURSIVE V3_drain(_, _)
V3_drain(d, q) ==
    IF q = <<>> THEN d
    ELSE CHOOSE r \in {V3_drain(x, Tail(q)) : x \in {V3_queue_item(d, Head(q))}} : TRUE

(***************************************************************************)
(* The state after construction (__init__ and create_widgets).             *)
(***************************************************************************)
\* the handler that ran last: its name, its inputs, the messagebox it showed
Event(op, arg, dialog) == [op |-> op, arg |-> arg, dialog |-> dialog]

GuiInit(v, port) ==
    [port_var |-> port,
     auto_connect_var |-> TRUE,
     total_devices |-> 0,
     system_state |-> Unknown,
     ina226_status |-> Unknown,
     device_count_label |-> <<"0">>,
     state_label |-> Unknown,
     ina226_label |-> Unknown,
     group_total_var |-> 1,
     group_id_var |-> <<"1">>,
     group_id_values |-> <<<<"1">>>>,
     frame_count_var |-> 10,
     interframe_delay_var |-> 10,
     servo_target_mode |-> "all",
     servo_device_var |-> IF v = "V3" THEN AllEntry ELSE Dev000,
     servo_device_values |-> IF v = "V3" THEN <<AllEntry>> ELSE <<Dev000>>,
     led_device_var |-> <<>>,
     led_device_values |-> <<>>,
     current_target_var |-> "all",
     current_device_var |-> Dev000,
     current_device_values |-> <<Dev000>>,
     debug_filter_var |-> TRUE,
     log_buffer |-> <<>>,
     log_text |-> <<>>]

\* the timers pending after construction; V1's constructor ends with
\* refresh_ports(), which schedules toggle_connection when a port is listed
TimersInit(v, port) ==
    [try_auto_connect |-> IF v = "V3" THEN 1 ELSE 0,
     auto_request_status |-> 0,
     process_queue |-> IF v = "V3" THEN 1 ELSE 0,
     initial_auto_connect |-> IF v = "V1" THEN 1 ELSE 0,
     toggle_connection |-> IF v = "V1" /\ port # NoPort THEN 1 ELSE 0,
     get_status |-> 0]

InitOf(v, port) ==
    /\ variant = v
    /\ serial_port = 0
    /\ is_connected = FALSE
    /\ running = FALSE
    /\ read_thread = 0
    /\ open = {}
    /\ nconn = 0
    /\ readers = <<>>
    /\ mainpc = "idle"
    /\ message_queue = <<>>
    /\ tkq = <<>>
    /\ timers = TimersInit(v, port)
    /\ gui = GuiInit(v, port)
    /\ tx = <<>>
    /\ demo_running = FALSE
    /\ demos = <<>>
    /\ stop_signal = FALSE
    /\ ev = Event("__init__", <<>>, "")
    /\ exported = <<>>
    /\ handed = <<>>
    /\ dispatched = <<>>
    /\ nrx = 0
    /\ ncmd = 0
    /\ nuser = 0
    /\ nedit = 0

\* the serial ports the operating system lists at start-up: one, or none
Init == \E v \in {"V1", "V3"} : \E port \in {PortName, NoPort} : InitOf(v, port)

(***************************************************************************)
(* V3: connection life cycle.                                              *)
(***************************************************************************)
\* str(e) of an exception, a text the program only copies
ExcText == <<"<exception>">>

\* a connect that marks the client connected before the port has opened
V3_connect_marks_connected_first(opens, tm) ==
    IF gui.port_var = NoPort
    THEN /\ ev' = Event("connect", <<opens>>, "Please select a serial port")
         /\ timers' = tm
         /\ UNCHANGED <<connVars, readers, gui>>
    ELSE IF opens /\ nconn < MaxConn
    THEN /\ nconn' = nconn + 1
         /\ serial_port' = nconn + 1
         /\ open' = open \cup {nconn + 1}
         /\ is_connected' = TRUE
         /\ running' = TRUE
         /\ readers' = Append(readers, [pc |-> "check"])
         /\ read_thread' = Len(readers) + 1
         /\ gui' = V3_log_message(gui, <<"Connected to ">> \o gui.port_var, "success")
         /\ timers' = [tm EXCEPT !.auto_request_status = @ + 1]
         /\ ev' = Event("connect", <<opens>>, "")
    ELSE /\ is_connected' = TRUE
         /\ gui' = V3_log_message(gui, <<"Connection failed: ">> \o ExcText, "error")
         /\ ev' = Event("connect", <<opens>>, "Connection Error")
         /\ timers' = tm
         /\ UNCHANGED <<serial_port, running, read_thread, open, nconn, readers>>

\* connect(); `opens` says whether serial.Serial(port, baud) returned a port, `tm`
\* is the pending timers when connect() is entered
V3_connect(opens, tm) ==
    IF gui.port_var = NoPort
    THEN /\ ev' = Event("connect", <<opens>>, "Please select a serial port")
         /\ timers' = tm
         /\ UNCHANGED <<connVars, readers, gui>>
    ELSE IF opens /\ nconn < MaxConn
    THEN /\ nconn' = nconn + 1
         /\ serial_port' = nconn + 1
         /\ open' = open \cup {nconn + 1}
         /\ is_connected' = TRUE
         /\ running' = TRUE
         /\ readers' = Append(readers, [pc |-> "check"])
         /\ read_thread' = Len(readers) + 1
         /\ gui' = V3_log_message(gui, <<"Connected to ">> \o gui.port_var, "success")
         /\ timers' = [tm EXCEPT !.auto_request_status = @ + 1]
         /\ ev' = Event("connect", <<opens>>, "")
    ELSE /\ gui' = V3_log_message(gui, <<"Connection failed: ">> \o ExcText, "error")
         /\ ev' = Event("connect", <<opens>>, "Connection Error")
         /\ timers' = tm
         /\ UNCHANGED <<connVars, readers>>

\* disconnect(), up to read_thread.join(timeout=1.0)
V3_disconnect_begin ==
    /\ running' = FALSE
    /\ mainpc' = IF read_thread # 0 THEN "joining" ELSE "closing"
    /\ ev' = Event("disconnect", <<>>, "")
    /\ UNCHANGED <<serial_port, is_connected, read_thread, open, nconn, readers, timers,
                   gui>>

\* a disconnect that releases the port and leaves is_connected set
V3_disconnect_end_keeps_flag(timed_out, close_raises) ==
    /\ variant = "V3"
    /\ mainpc \in {"joining", "closing"}
    /\ mainpc = "joining" =>
           (timed_out \/ readers[read_thread].pc \in {"done", "broke", "crashed"})
    /\ mainpc' = "idle"
    /\ IF serial_port # 0 /\ serial_port \in open /\ close_raises
       THEN /\ ev' = Event("disconnect", <<timed_out, close_raises>>, "")
            /\ UNCHANGED <<serial_port, is_connected, open, gui>>
       ELSE /\ open' = open \ {serial_port}
            /\ serial_port' = 0
            /\ UNCHANGED is_connected
            /\ gui' = V3_log_message(gui, <<"Disconnected">>, "info")
            /\ ev' = Event("disconnect", <<timed_out, close_raises>>, "")
    /\ UNCHANGED <<variant, exported, running, read_thread, nconn, readers, message_queue, tkq,
                   timers, tx, demoVars, histVars>>

\* disconnect(), from the return of join on; the join returns because the reader
\* has ended or because its timeout of one second has passed.  `close_raises` says
\* whether serial_port.close() raises.
V3_disconnect_end(timed_out, close_raises) ==
    /\ variant = "V3"
    /\ mainpc \in {"joining", "closing"}
    /\ mainpc = "joining" =>
           (timed_out \/ readers[read_thread].pc \in {"done", "broke", "crashed"})
    /\ mainpc' = "idle"
    /\ IF serial_port # 0 /\ serial_port \in open /\ close_raises
       THEN /\ ev' = Event("disconnect", <<timed_out, close_raises>>, "")
            /\ UNCHANGED <<serial_port, is_connected, open, gui>>
       ELSE /\ open' = open \ {serial_port}
            /\ is_connected' = FALSE
            /\ serial_port' = 0
            /\ gui' = V3_log_message(gui, <<"Disconnected">>, "info")
            /\ ev' = Event("disconnect", <<timed_out, close_raises>>, "")
    /\ UNCHANGED <<variant, exported, running, read_thread, nconn, readers, message_queue, tkq,
                   timers, tx, demoVars, histVars>>

\* toggle_connection(): the Connect / Disconnect button
V3_toggle_connection(opens) ==
    /\ variant = "V3"
    /\ mainpc = "idle"
    /\ IF ~is_connected
       THEN V3_connect(opens, timers) /\ mainpc' = mainpc
       ELSE V3_disconnect_begin
    /\ UNCHANGED <<variant, exported, message_queue, tkq, tx, demoVars, histVars>>

\* try_auto_connect(), 500 ms after start-up
\* an auto-connect that does not look at is_connected
V3_try_auto_connect_unguarded(opens) ==
    /\ variant = "V3"
    /\ mainpc = "idle"
    /\ timers.try_auto_connect > 0
    /\ IF gui.port_var # NoPort
       THEN /\ V3_connect(opens, [timers EXCEPT !.try_auto_connect = @ - 1])
            /\ mainpc' = mainpc
       ELSE /\ ev' = Event("try_auto_connect", <<>>, "")
            /\ timers' = [timers EXCEPT !.try_auto_connect = @ - 1]
            /\ UNCHANGED <<connVars, readers, gui, mainpc>>
    /\ UNCHANGED <<variant, exported, message_queue, tkq, tx, demoVars, histVars>>

\* try_auto_connect(): 500 ms after construction
V3_try_auto_connect(opens) ==
    /\ variant = "V3"
    /\ mainpc = "idle"
    /\ timers.try_auto_connect > 0
    /\ IF ~is_connected /\ gui.port_var # NoPort
       THEN /\ V3_connect(opens, [timers EXCEPT !.try_auto_connect = @ - 1])
            /\ mainpc' = mainpc
       ELSE /\ ev' = Event("try_auto_connect", <<>>, "")
            /\ timers' = [timers EXCEPT !.try_auto_connect = @ - 1]
            /\ UNCHANGED <<connVars, readers, gui, mainpc>>
    /\ UNCHANGED <<variant, exported, message_queue, tkq, tx, demoVars, histVars>>


(***************************************************************************)
(* V3: the reader thread and the consumer of its queue.                    *)
(***************************************************************************)
\* the raw lines the device sends in the connection scenarios, before strip()
RxLines ==
    {T_TOTAL \o <<"2">>, T_STATE \o <<"O", "K", "\r">>, <<" ", "\r">>}

\* a reader that reports a read error and then tries again
V3_read_serial_retries(i, outcome, raw) ==
    /\ variant = "V3"
    /\ i \in 1..Len(readers)
    /\ LET pc == readers[i].pc
           goto(l) == readers' = [readers EXCEPT ![i].pc = l]
           line == Strip(raw)
           raises == serial_port = 0 \/ serial_port \notin open \/ outcome = "ioerror"
       IN  /\ pc \in {"check", "check_open", "try"}
           /\ pc # "try" => outcome = "idle" /\ raw = <<>>
           /\ outcome = "line" <=> raw # <<>>
           /\ IF pc = "check"
              THEN /\ goto(IF running /\ serial_port # 0 THEN "check_open" ELSE "done")
                   /\ UNCHANGED <<message_queue, handed>>
              ELSE IF pc = "check_open"
              THEN /\ goto(IF serial_port = 0 THEN "crashed"
                           ELSE IF serial_port \in open THEN "try" ELSE "done")
                   /\ UNCHANGED <<message_queue, handed>>
              ELSE IF raises
              THEN /\ message_queue' =
                          Append(message_queue, <<"error", <<"Read error: ">> \o ExcText>>)
                   /\ goto("check")
                   /\ UNCHANGED handed
              ELSE IF outcome = "line"
              THEN /\ IF line # <<>>
                      THEN /\ message_queue' = Append(message_queue, <<"serial", line>>)
                           /\ handed' = Append(handed, line)
                      ELSE UNCHANGED <<message_queue, handed>>
                   /\ goto("check")
              ELSE /\ goto("check")
                   /\ UNCHANGED <<message_queue, handed>>
    /\ UNCHANGED <<ev, variant, exported, connVars, mainpc, tkq, timers, gui, tx, demoVars, dispatched>>

\* a reader that hands over every line, the empty ones too
V3_read_serial_hands_empty(i, outcome, raw) ==
    /\ variant = "V3"
    /\ i \in 1..Len(readers)
    /\ LET pc == readers[i].pc
           goto(l) == readers' = [readers EXCEPT ![i].pc = l]
           line == Strip(raw)
           raises == serial_port = 0 \/ serial_port \notin open \/ outcome = "ioerror"
       IN  /\ pc \in {"check", "check_open", "try"}
           /\ pc # "try" => outcome = "idle" /\ raw = <<>>
           /\ outcome = "line" <=> raw # <<>>
           /\ IF pc = "check"
              THEN /\ goto(IF running /\ serial_port # 0 THEN "check_open" ELSE "done")
                   /\ UNCHANGED <<message_queue, handed>>
              ELSE IF pc = "check_open"
              THEN /\ goto(IF serial_port = 0 THEN "crashed"
                           ELSE IF serial_port \in open THEN "try" ELSE "done")
                   /\ UNCHANGED <<message_queue, handed>>
              ELSE IF raises
              THEN /\ message_queue' =
                          Append(message_queue, <<"error", <<"Read error: ">> \o ExcText>>)
                   /\ goto("broke")
                   /\ UNCHANGED handed
              ELSE IF outcome = "line"
              THEN /\ message_queue' = Append(message_queue, <<"serial", line>>)
                   /\ handed' = Append(handed, line)
                   /\ goto("check")
              ELSE /\ goto("check")
                   /\ UNCHANGED <<message_queue, handed>>
    /\ UNCHANGED <<ev, variant, exported, connVars, mainpc, tkq, timers, gui, tx, demoVars, dispatched>>

\* read_serial(), reader thread i: one evaluation of a part of the loop.
\*   check       running and serial_port
\*   check_open  serial_port.is_open
\*   try         the body of the try statement, then time.sleep(0.01)
\* `outcome` is what the port does in the try: "idle" (in_waiting is 0), "line"
\* (readline returns `raw`) or "ioerror" (the read raises).  The thread ends at
\* "done" (the loop condition was false), "broke" (the break of the except branch)
\* or "crashed" (is_open was read from None).
V3_read_serial(i, outcome, raw) ==
    /\ variant = "V3"
    /\ i \in 1..Len(readers)
    /\ LET pc == readers[i].pc
           goto(l) == readers' = [readers EXCEPT ![i].pc = l]
           line == Strip(raw)
           raises == serial_port = 0 \/ serial_port \notin open \/ outcome = "ioerror"
       IN  /\ pc \in {"check", "check_open", "try"}
           /\ pc # "try" => outcome = "idle" /\ raw = <<>>
           /\ outcome = "line" <=> raw # <<>>
           /\ IF pc = "check"
              THEN /\ goto(IF running /\ serial_port # 0 THEN "check_open" ELSE "done")
                   /\ UNCHANGED <<message_queue, handed>>
              ELSE IF pc = "check_open"
              THEN /\ goto(IF serial_port = 0 THEN "crashed"
                           ELSE IF serial_port \in open THEN "try" ELSE "done")
                   /\ UNCHANGED <<message_queue, handed>>
              ELSE IF raises
              THEN /\ message_queue' =
                          Append(message_queue, <<"error", <<"Read error: ">> \o ExcText>>)
                   /\ goto("broke")
                   /\ UNCHANGED handed
              ELSE IF outcome = "line"
              THEN /\ IF line # <<>>
                      THEN /\ message_queue' = Append(message_queue, <<"serial", line>>)
                           /\ handed' = Append(handed, line)
                      ELSE UNCHANGED <<message_queue, handed>>
                   /\ goto("check")
              ELSE /\ goto("check")
                   /\ UNCHANGED <<message_queue, handed>>
    /\ UNCHANGED <<ev, variant, exported, connVars, mainpc, tkq, timers, gui, tx, demoVars, dispatched>>

\* a process_queue that lets the ValueError of a malformed number escape: the loop
\* is left at that line and the next check is not scheduled
V3_process_queue_aborts_on_bad_number ==
    /\ variant = "V3"
    /\ mainpc = "idle"
    /\ timers.process_queue > 0
    /\ message_queue # <<>>
    /\ LET item == Head(message_queue)
           bad == /\ item[1] = "serial"
                  /\ \E t \in {T_TOTAL, T_GROUP_TOTAL, T_FRAME_COUNT, T_INTERFRAME_DELAY} :
                         StartsWith(item[2], t)
                  /\ ~ParseInt(AfterFirst(item[2], ":")).ok
           d == V3_queue_item([gui |-> gui, dispatched |-> dispatched], item)
       IN  /\ gui' = d.gui
           /\ dispatched' = d.dispatched
           /\ timers' = IF bad THEN [timers EXCEPT !.process_queue = 0] ELSE timers
    /\ message_queue' = Tail(message_queue)
    /\ ev' = Event("process_queue", <<1>>, "")
    /\ UNCHANGED <<variant, exported, connVars, readers, mainpc, tkq, tx, demoVars, handed>>

\* process_queue(): every 50 ms in the interactive thread (a run that finds the
\* queue empty changes nothing)
V3_process_queue ==
    /\ variant = "V3"
    /\ mainpc = "idle"
    /\ timers.process_queue > 0
    /\ message_queue # <<>>
    /\ LET d == V3_drain([gui |-> gui, dispatched |-> dispatched], message_queue)
       IN  gui' = d.gui /\ dispatched' = d.dispatched
    /\ message_queue' = <<>>
    /\ ev' = Event("process_queue", <<Len(message_queue)>>, "")
    /\ UNCHANGED <<variant, exported, connVars, readers, mainpc, tkq, timers, tx, demoVars, handed>>


\* the "Filter DEBUG messages" checkbutton: Tk flips debug_filter_var, then runs
\* the command refresh_log_display
V3_toggle_debug_filter ==
    /\ variant = "V3"
    /\ mainpc = "idle"
    /\ gui' = V3_refresh_log_display([gui EXCEPT !.debug_filter_var = ~@])
    /\ ev' = Event("refresh_log_display", <<>>, "")
    /\ UNCHANGED <<variant, exported, connVars, readers, mainpc, message_queue, tkq, timers, tx,
                   demoVars, histVars>>

\* clear_log(): the "Clear Log" button
V3_clear_log ==
    /\ variant = "V3"
    /\ mainpc = "idle"
    /\ gui' = [gui EXCEPT !.log_buffer = <<>>, !.log_text = <<>>]
    /\ ev' = Event("clear_log", <<>>, "")
    /\ UNCHANGED <<variant, exported, connVars, readers, mainpc, message_queue, tkq, timers, tx,
                   demoVars, histVars>>

\* what export_log writes for a buffer: f.write(message + "\n") for each entry
RECURSIVE V3_export_text(_)
V3_export_text(buffer) ==
    IF buffer = <<>> THEN <<>>
    ELSE Head(buffer)[1] \o <<NL>> \o V3_export_text(Tail(buffer))

\* the text of the widget, entry after entry
RECURSIVE V3_displayed_text(_)
V3_displayed_text(text) ==
    IF text = <<>> THEN <<>> ELSE Head(text)[1] \o V3_displayed_text(Tail(text))

\* an export_log that writes what the widget shows
V3_export_log_writes_display(outcome, k) ==
    /\ variant = "V3"
    /\ mainpc = "idle"
    /\ k \in 0..Len(gui.log_buffer)
    /\ outcome # "failed" => k = 0
    /\ \/ /\ outcome = "cancelled"
          /\ exported' = exported
          /\ ev' = Event("export_log", <<outcome>>, "")
       \/ /\ outcome = "written"
          /\ exported' = (V3_displayed_text(gui.log_text))
          /\ ev' = Event("export_log", <<outcome>>, "Success")
       \/ /\ outcome = "failed"
          /\ exported' = (V3_export_text(SubSeq(gui.log_buffer, 1, k)))
          /\ ev' = Event("export_log", <<outcome>>, "Error")
    /\ UNCHANGED <<variant, connVars, readers, mainpc, message_queue, tkq, timers, gui, tx,
                   demoVars, histVars>>

\* export_log(): the "Export Log" button.  The user cancels the file dialog, or
\* the file is written, or open / write raises after k entries were written (k is
\* 0 when nothing raises)
V3_export_log(outcome, k) ==
    /\ variant = "V3"
    /\ mainpc = "idle"
    /\ k \in 0..Len(gui.log_buffer)
    /\ outcome # "failed" => k = 0
    /\ \/ /\ outcome = "cancelled"
          /\ exported' = exported
          /\ ev' = Event("export_log", <<outcome>>, "")
       \/ /\ outcome = "written"
          /\ exported' = (V3_export_text(gui.log_buffer))
          /\ ev' = Event("export_log", <<outcome>>, "Success")
       \/ /\ outcome = "failed"
          /\ exported' = (V3_export_text(SubSeq(gui.log_buffer, 1, k)))
          /\ ev' = Event("export_log", <<outcome>>, "Error")
    /\ UNCHANGED <<variant, connVars, readers, mainpc, message_queue, tkq, timers, gui, tx,
                   demoVars, histVars>>

(***************************************************************************)
(* V1: the log, the dispatcher and the device lists (SOLAR_GUI.py).        *)
(***************************************************************************)
\* log_message(message): one line of the text widget
V1_log_message(g, message) ==
    [g EXCEPT !.log_text = Append(@, <<"[">> \o Stamp1 \o <<"]", " ">> \o message \o <<NL>>)]

\* ["000"] + [f"{i:03d}" for i in range(1, total_devices + 1)]
V1_device_list(total) == <<Dev000>> \o [i \in 1..total |-> Pad3(i)]

\* x in list
InList(x, list) == \E i \in 1..Len(list) : list[i] = x

\* update_device_lists()
V1_update_device_lists(g) ==
    IF g.total_devices > 0
    THEN LET device_list == V1_device_list(g.total_devices)
         IN  [g EXCEPT
                 !.servo_device_values = device_list,
                 !.servo_device_var = IF InList(@, device_list) THEN @ ELSE Dev000,
                 !.current_device_values = device_list,
                 !.current_device_var = IF InList(@, device_list) THEN @ ELSE Dev000]
    ELSE g

\* the telemetry-detail labels of process_serial_data
V1_detail_labels ==
    {<<"T", "a", "r", "g", "e", "t", " ", "C", "u", "r", "r", "e", "n", "t", ":">>,
     <<"M", "e", "a", "s", "u", "r", "e", "d", " ", "C", "u", "r", "r", "e", "n", "t", ":">>,
     <<"B", "u", "s", " ", "V", "o", "l", "t", "a", "g", "e", ":">>,
     <<"S", "h", "u", "n", "t", " ", "V", "o", "l", "t", "a", "g", "e", ":">>,
     T_POWER,
     <<"D", "A", "C", " ", "V", "a", "l", "u", "e", ":">>,
     <<"D", "A", "C", " ", "V", "o", "l", "t", "a", "g", "e", ":">>,
     <<"C", "o", "n", "t", "r", "o", "l", " ", "S", "t", "a", "t", "e", ":">>}

\* process_serial_data(data): the state it leaves, whether it raised (ValueError
\* from int()), and whether it queued update_device_lists with root.after(0, ...)
V1_process_serial_data(g, data) ==
    LET field == SplitSecond(data, ":")
        n == ParseInt(field)
        done(h) == [gui |-> h, raised |-> FALSE, queued |-> FALSE]
    IN  IF g.debug_filter_var /\ StartsWith(data, T_DEBUG)
        THEN done(g)
        ELSE IF StartsWith(data, T_TOTAL)
        THEN IF n.ok
             THEN [gui |-> [g EXCEPT !.total_devices = n.val,
                                     !.device_count_label = Str(n.val)],
                   raised |-> FALSE, queued |-> TRUE]
             ELSE [gui |-> g, raised |-> TRUE, queued |-> FALSE]
        ELSE IF StartsWith(data, T_STATE)
        THEN done([g EXCEPT !.system_state = field, !.state_label = field])
        ELSE IF StartsWith(data, T_INA226)
        THEN done([g EXCEPT !.ina226_status = field, !.ina226_label = field])
        ELSE IF StartsWith(data, T_EOT)
        THEN done(V1_log_message(g, <<"U+2713", " ", "EOT">>))
        ELSE IF StartsWith(data, T_ERR)
        THEN done(V1_log_message(g, <<"U+274C", " Error: ">> \o data))
        ELSE IF StartsWith(data, T_EMERGENCY)
        THEN done(V1_log_message(g, <<"U+1F6A8", " ">> \o data))
        ELSE IF StartsWith(data, T_HEADER)
        THEN done(V1_log_message(g, data))
        ELSE IF \E l \in V1_detail_labels : StartsWith(data, l)
        THEN done(V1_log_message(g, data))
        ELSE done(V1_log_message(g, data))

\* the "Filter DEBUG messages" checkbutton: Tk flips filter_debug_var (kept in
\* gui.debug_filter_var); the checkbutton has no command
V1_toggle_filter_debug ==
    /\ variant = "V1"
    /\ gui' = [gui EXCEPT !.debug_filter_var = ~@]
    /\ ev' = Event("filter_debug_var", <<>>, "")
    /\ UNCHANGED <<variant, exported, connVars, readers, mainpc, message_queue, tkq, timers, tx,
                   demoVars, histVars>>

\* clear_log(): the "Clear Log" button
V1_clear_log ==
    /\ variant = "V1"
    /\ gui' = [gui EXCEPT !.log_text = <<>>]
    /\ ev' = Event("clear_log", <<>>, "")
    /\ UNCHANGED <<variant, exported, connVars, readers, mainpc, message_queue, tkq, timers, tx,
                   demoVars, histVars>>

(***************************************************************************)
(* V1: connection life cycle and the reader thread.                        *)
(***************************************************************************)
\* a callback queued with root.after(0, fn, arg)
Callback(fn, arg) == [fn |-> fn, arg |-> arg]

\* toggle_connection(); `opens` says whether serial.Serial(port, baud) returned a
\* port, `close_raises` whether serial_port.close() raises, `tm` is the pending
\* timers when the handler is entered
V1_toggle(opens, close_raises, tm) ==
    IF ~is_connected
    THEN IF gui.port_var = NoPort
         THEN /\ ev' = Event("toggle_connection", <<opens>>, "Please select a port")
              /\ timers' = tm
              /\ UNCHANGED <<connVars, readers, gui>>
         ELSE IF opens /\ nconn < MaxConn
         THEN /\ nconn' = nconn + 1
              /\ serial_port' = nconn + 1
              /\ open' = open \cup {nconn + 1}
              /\ is_connected' = TRUE
              /\ readers' = Append(readers, [pc |-> "check"])
              /\ read_thread' = Len(readers) + 1
              /\ timers' = [tm EXCEPT !.get_status = @ + 1]
              /\ gui' = V1_log_message(gui,
                            <<"U+1F50C", " Connected to ">> \o gui.port_var
                                \o <<" at ", "115200", " baud">>)
              /\ ev' = Event("toggle_connection", <<opens>>, "")
              /\ UNCHANGED running
         ELSE /\ gui' = V1_log_message(gui, <<"U+274C", " Connection failed: ">> \o ExcText)
              /\ ev' = Event("toggle_connection", <<opens>>, "Connection Error")
              /\ timers' = tm
              /\ UNCHANGED <<connVars, readers>>
    ELSE IF serial_port # 0 /\ serial_port \in open /\ close_raises
    THEN /\ gui' = V1_log_message(gui, <<"U+274C", " Disconnect error: ">> \o ExcText)
         /\ ev' = Event("toggle_connection", <<close_raises>>, "")
         /\ timers' = tm
         /\ UNCHANGED <<connVars, readers>>
    ELSE /\ open' = open \ {serial_port}
         /\ is_connected' = FALSE
         /\ gui' = V1_log_message(
                       [gui EXCEPT !.device_count_label = <<"0">>,
                                   !.state_label = Unknown,
                                   !.ina226_label = Unknown],
                       <<"U+1F50C", " Disconnected">>)
         /\ ev' = Event("toggle_connection", <<close_raises>>, "")
         /\ timers' = tm
         /\ UNCHANGED <<serial_port, running, read_thread, nconn, readers>>

\* the Connect / Disconnect button
V1_toggle_connection(opens, close_raises) ==
    /\ variant = "V1"
    /\ V1_toggle(opens, close_raises, timers)
    /\ stop_signal' = (stop_signal \/ (demo_running /\ is_connected /\ ~is_connected'))
    /\ UNCHANGED <<variant, exported, mainpc, message_queue, tkq, tx, demo_running, demos,
                   histVars>>

\* the toggle_connection that refresh_ports scheduled with root.after(100, ...)
V1_scheduled_toggle_connection(opens, close_raises) ==
    /\ variant = "V1"
    /\ timers.toggle_connection > 0
    /\ V1_toggle(opens, close_raises, [timers EXCEPT !.toggle_connection = @ - 1])
    /\ stop_signal' = (stop_signal \/ (demo_running /\ is_connected /\ ~is_connected'))
    /\ UNCHANGED <<variant, exported, mainpc, message_queue, tkq, tx, demo_running, demos,
                   histVars>>

\* refresh_ports(), entered with gui state g and timers tm; `ports` is the list
\* the operating system returns
V1_refresh(g, tm, ports) ==
    IF ports # <<>> /\ g.auto_connect_var
    THEN /\ gui' = [g EXCEPT !.port_var = ports[1]]
         /\ timers' = IF ~is_connected
                      THEN [tm EXCEPT !.toggle_connection = @ + 1]
                      ELSE tm
    ELSE /\ gui' = g
         /\ timers' = tm

\* the Refresh button
V1_refresh_ports(ports) ==
    /\ variant = "V1"
    /\ timers.toggle_connection < MaxPending
    /\ V1_refresh(gui, timers, ports)
    /\ ev' = Event("refresh_ports", <<ports>>, "")
    /\ UNCHANGED <<variant, exported, connVars, readers, mainpc, message_queue, tkq, tx, demoVars,
                   histVars>>

\* initial_auto_connect(), 1000 ms after start-up
V1_initial_auto_connect(ports) ==
    /\ variant = "V1"
    /\ timers.initial_auto_connect > 0
    /\ IF gui.auto_connect_var /\ ~is_connected
       THEN V1_refresh(gui, [timers EXCEPT !.initial_auto_connect = @ - 1], ports)
       ELSE /\ timers' = [timers EXCEPT !.initial_auto_connect = @ - 1]
            /\ UNCHANGED gui
    /\ ev' = Event("initial_auto_connect", <<ports>>, "")
    /\ UNCHANGED <<variant, exported, connVars, readers, mainpc, message_queue, tkq, tx, demoVars,
                   histVars>>

\* a reader that writes its read error into the log itself
V1_read_serial_logs_itself(i, outcome, raw) ==
    /\ variant = "V1"
    /\ i \in 1..Len(readers)
    /\ LET pc == readers[i].pc
           goto(l) == readers' = [readers EXCEPT ![i].pc = l]
           line == Strip(raw)
           raises == serial_port \notin open \/ outcome = "ioerror"
       IN  /\ pc \in {"check", "try"}
           /\ pc # "try" => outcome = "idle" /\ raw = <<>>
           /\ outcome = "line" <=> raw # <<>>
           /\ IF pc = "check"
              THEN /\ goto(IF is_connected /\ serial_port # 0 THEN "try" ELSE "done")
                   /\ UNCHANGED <<tkq, handed, gui>>
              ELSE IF raises
              THEN /\ gui' = V1_log_message(gui, <<"Serial read error: ">> \o ExcText)
                   /\ goto("broke")
                   /\ UNCHANGED <<tkq, handed>>
              ELSE IF outcome = "line"
              THEN /\ IF line # <<>>
                      THEN /\ tkq' = Append(tkq, Callback("process_serial_data", line))
                           /\ handed' = Append(handed, line)
                      ELSE UNCHANGED <<tkq, handed>>
                   /\ goto("check")
                   /\ UNCHANGED gui
              ELSE /\ goto("check")
                   /\ UNCHANGED <<tkq, handed, gui>>
    /\ UNCHANGED <<ev, variant, exported, connVars, mainpc, message_queue, timers, tx, demoVars,
                   dispatched>>

\* read_serial(), reader thread i: the loop condition ("check"), then the body of
\* the try statement ("try").  `outcome` is what the port does in the try: "idle"
\* (in_waiting is 0), "line" (readline returns `raw`) or "ioerror" (the read or
\* the decoding raises).  The thread ends at "done" (the loop condition was false)
\* or "broke" (the break of the except branch).
V1_read_serial(i, outcome, raw) ==
    /\ variant = "V1"
    /\ i \in 1..Len(readers)
    /\ LET pc == readers[i].pc
           goto(l) == readers' = [readers EXCEPT ![i].pc = l]
           line == Strip(raw)
           raises == serial_port \notin open \/ outcome = "ioerror"
       IN  /\ pc \in {"check", "try"}
           /\ pc # "try" => outcome = "idle" /\ raw = <<>>
           /\ outcome = "line" <=> raw # <<>>
           /\ IF pc = "check"
              THEN /\ goto(IF is_connected /\ serial_port # 0 THEN "try" ELSE "done")
                   /\ UNCHANGED <<tkq, handed>>
              ELSE IF raises
              THEN /\ tkq' = Append(tkq, Callback("log_message",
                                             <<"Serial read error: ">> \o ExcText))
                   /\ goto("broke")
                   /\ UNCHANGED handed
              ELSE IF outcome = "line"
              THEN /\ IF line # <<>>
                      THEN /\ tkq' = Append(tkq, Callback("process_serial_data", line))
                           /\ handed' = Append(handed, line)
                      ELSE UNCHANGED <<tkq, handed>>
                   /\ goto("check")
              ELSE /\ goto("check")
                   /\ UNCHANGED <<tkq, handed>>
    /\ UNCHANGED <<ev, variant, exported, connVars, mainpc, message_queue, timers, gui, tx, demoVars,
                   dispatched>>


(***************************************************************************)
(* The values the user may leave in the entry widgets.                     *)
(***************************************************************************)
Angles == {59, 60, 90, 120, 121}
Currents == {-1, 0, 1500, 1501}
Exposures == {9, 10}
GroupTotals == {0, 3, 5}
\* frame count and interframe delay, as pairs
FrameEdits == {<<0, 5>>, <<1, 5>>, <<1, 4>>, <<1000, 10>>, <<1001, 5>>}

\* one call of serial_port.write(data) on port `port`; ok is FALSE when it raised
Write(data, port, ok) == [data |-> data, port |-> port, ok |-> ok]

(***************************************************************************)
(* V3: commands ("Command Methods").                                       *)
(***************************************************************************)
\* a send_command that logs the command before it looks at the connection
V3_send_command_logs_first(g, command, wfail) ==
    LET g1 == V3_log_message(g, <<">> ">> \o command, "info")
    IN  IF ~is_connected \/ serial_port = 0
        THEN [gui |-> g1, tx |-> tx, dialog |-> "Not Connected", ret |-> FALSE]
        ELSE IF wfail \/ serial_port \notin open
        THEN [gui |-> V3_log_message(g, <<"Send error: ">> \o ExcText, "error"),
              tx |-> Append(tx, Write(command \o <<NL>>, serial_port, FALSE)),
              dialog |-> "", ret |-> FALSE]
        ELSE [gui |-> g1,
              tx |-> Append(tx, Write(command \o <<NL>>, serial_port, TRUE)),
              dialog |-> "", ret |-> TRUE]

\* send_command(command), entered with gui state g; `wfail` says whether the
\* write raises.  The state it leaves, the writes, the messagebox and the result.
V3_send_command(g, command, wfail) ==
    IF ~is_connected \/ serial_port = 0
    THEN [gui |-> g, tx |-> tx, dialog |-> "Not Connected", ret |-> FALSE]
    ELSE IF wfail \/ serial_port \notin open
    THEN [gui |-> V3_log_message(g, <<"Send error: ">> \o ExcText, "error"),
          tx |-> Append(tx, Write(command \o <<NL>>, serial_port, FALSE)),
          dialog |-> "", ret |-> FALSE]
    ELSE [gui |-> V3_log_message(g, <<">> ">> \o command, "info"),
          tx |-> Append(tx, Write(command \o <<NL>>, serial_port, TRUE)),
          dialog |-> "", ret |-> TRUE]

\* a command handler of the interactive thread that ends in state r.gui, r.tx
V3_command(op, arg, r) ==
    /\ variant = "V3"
    /\ mainpc = "idle"
    /\ gui' = r.gui
    /\ tx' = r.tx
    /\ ev' = Event(op, arg, r.dialog)
    /\ UNCHANGED <<variant, exported, connVars, readers, mainpc, message_queue, tkq, timers,
                   demoVars, histVars>>

\* a handler that returns before send_command, showing messagebox `dialog`
Rejected(dialog) == [gui |-> gui, tx |-> tx, dialog |-> dialog, ret |-> FALSE]

V3_send_status_command(wfail) ==
    V3_command("send_status_command", <<>>, V3_send_command(gui, <<"status">>, wfail))

\* a reinit that forgets the device count it is about to ask for again
V3_send_reinit_command_resets_count(wfail) ==
    V3_command("send_reinit_command", <<>>,
        V3_send_command([gui EXCEPT !.total_devices = 0], <<"reinit">>, wfail))

V3_send_reinit_command(wfail) ==
    V3_command("send_reinit_command", <<>>, V3_send_command(gui, <<"reinit">>, wfail))

\* send_emergency_command(); `yes` is the answer to messagebox.askyesno
V3_send_emergency_command(yes, wfail) ==
    V3_command("send_emergency_command", <<yes>>,
        IF yes
        THEN LET r == V3_send_command(gui, <<"emergency">>, wfail)
             IN  [r EXCEPT !.gui = V3_log_message(@, <<"EMERGENCY SHUTDOWN SENT">>, "error")]
        ELSE Rejected(""))

\* a servo handler whose range test excludes 120
V3_send_servo_command_open_range(angle, wfail) ==
    V3_command("send_servo_command", <<angle>>,
        IF angle < 60 \/ angle >= 120
        THEN Rejected("Invalid Angle")
        ELSE LET device_id == IF gui.servo_target_mode = "all"
                              THEN Dev000
                              ELSE BeforeFirst(gui.servo_device_var, " ")
             IN  V3_send_command(gui, device_id \o <<",servo,">> \o Str(angle), wfail))

\* send_servo_command(); `angle` is servo_angle_var.get()
V3_send_servo_command(angle, wfail) ==
    V3_command("send_servo_command", <<angle>>,
        IF angle < 60 \/ angle > 120
        THEN Rejected("Invalid Angle")
        ELSE LET device_id == IF gui.servo_target_mode = "all"
                              THEN Dev000
                              ELSE BeforeFirst(gui.servo_device_var, " ")
             IN  V3_send_command(gui, device_id \o <<",servo,">> \o Str(angle), wfail))

\* a program handler that does not compare the group id with the group total
V3_send_program_command_no_group_check(current, exposure, wfail) ==
    V3_command("send_program_command", <<current, exposure>>,
        LET device_id == BeforeFirst(gui.led_device_var, " ")
            group_id == ParseInt(gui.group_id_var)
            group_total == gui.group_total_var
        IN  IF ~group_id.ok THEN Rejected("ValueError")
            ELSE IF current < 0 \/ current > 1500 THEN Rejected("Invalid Current")
            ELSE IF exposure < 10 THEN Rejected("Invalid Exposure")
            ELSE V3_send_command(gui,
                     device_id \o <<",program,{">> \o Str(group_id.val) \o <<",">>
                         \o Str(group_total) \o <<",">> \o Str(current) \o <<",">>
                         \o Str(exposure) \o <<"}">>,
                     wfail))

\* send_program_command(); `current` is current_var.get(), `exposure` is
\* exposure_var.get().  int(group_id_var.get()) raising ValueError ends the
\* handler with nothing done.
V3_send_program_command(current, exposure, wfail) ==
    V3_command("send_program_command", <<current, exposure>>,
        LET device_id == BeforeFirst(gui.led_device_var, " ")
            group_id == ParseInt(gui.group_id_var)
            group_total == gui.group_total_var
        IN  IF ~group_id.ok THEN Rejected("ValueError")
            ELSE IF current < 0 \/ current > 1500 THEN Rejected("Invalid Current")
            ELSE IF exposure < 10 THEN Rejected("Invalid Exposure")
            ELSE IF group_id.val < 1 \/ group_id.val > group_total
            THEN Rejected("Invalid Group")
            ELSE V3_send_command(gui,
                     device_id \o <<",program,{">> \o Str(group_id.val) \o <<",">>
                         \o Str(group_total) \o <<",">> \o Str(current) \o <<",">>
                         \o Str(exposure) \o <<"}">>,
                     wfail))

\* a frame handler whose delay test excludes 5
V3_send_frame_command_delay_above_5(wfail) ==
    V3_command("send_frame_command", <<gui.frame_count_var, gui.interframe_delay_var>>,
        IF gui.frame_count_var < 1 \/ gui.frame_count_var > 1000
        THEN Rejected("Invalid Frame Count")
        ELSE IF gui.interframe_delay_var <= 5
        THEN Rejected("Invalid Delay")
        ELSE V3_send_command(gui,
                 <<"frame,">> \o Str(gui.frame_count_var) \o <<",">>
                     \o Str(gui.interframe_delay_var),
                 wfail))

\* send_frame_command()
V3_send_frame_command(wfail) ==
    V3_command("send_frame_command", <<gui.frame_count_var, gui.interframe_delay_var>>,
        IF gui.frame_count_var < 1 \/ gui.frame_count_var > 1000
        THEN Rejected("Invalid Frame Count")
        ELSE IF gui.interframe_delay_var < 5
        THEN Rejected("Invalid Delay")
        ELSE V3_send_command(gui,
                 <<"frame,">> \o Str(gui.frame_count_var) \o <<",">>
                     \o Str(gui.interframe_delay_var),
                 wfail))

\* send_start_command(); `yes` is the answer to messagebox.askyesno
V3_send_start_command(yes, wfail) ==
    V3_command("send_start_command", <<yes>>,
        IF yes THEN V3_send_command(gui, <<"start">>, wfail) ELSE Rejected(""))

\* auto_request_status(), 1000 ms after a connect
V3_auto_request_status(wfail) ==
    /\ variant = "V3"
    /\ mainpc = "idle"
    /\ timers.auto_request_status > 0
    /\ timers' = [timers EXCEPT !.auto_request_status = @ - 1]
    /\ LET r == IF is_connected
                THEN V3_send_command(gui, <<"status">>, wfail)
                ELSE Rejected("")
       IN  /\ gui' = r.gui
           /\ tx' = r.tx
           /\ ev' = Event("auto_request_status", <<>>, r.dialog)
    /\ UNCHANGED <<variant, exported, connVars, readers, mainpc, message_queue, tkq, demoVars,
                   histVars>>

(***************************************************************************)
(* V3: what the user does to the entry widgets.                            *)
(***************************************************************************)
\* a change of gui by the user, with the callback the widget is bound to
V3_edit(op, arg, g) ==
    /\ variant = "V3"
    /\ mainpc = "idle"
    /\ gui' = g
    /\ gui' # gui
    /\ ev' = Event(op, arg, "")
    /\ UNCHANGED <<variant, exported, connVars, readers, mainpc, message_queue, tkq, timers, tx,
                   demoVars, histVars>>

\* the Group Total spinbox: its arrows and key releases call update_group_id_list,
\* a text pasted with the mouse does not (`bound` is FALSE)
V3_edit_group_total(n, bound) ==
    V3_edit("edit_group_total", <<n, bound>>,
        IF bound
        THEN V3_update_group_id_list([gui EXCEPT !.group_total_var = n])
        ELSE [gui EXCEPT !.group_total_var = n])

\* the Group ID combobox (readonly): one of its values
V3_select_group_id(k) ==
    /\ k \in 1..Len(gui.group_id_values)
    /\ V3_edit("select_group_id", <<k>>, [gui EXCEPT !.group_id_var = gui.group_id_values[k]])

\* the Frame Count and Interframe Delay spinboxes
V3_edit_frame(count, delay) ==
    V3_edit("edit_frame", <<count, delay>>,
        [gui EXCEPT !.frame_count_var = count, !.interframe_delay_var = delay])

\* update_servo_device_state(): the All Servos / Individual radio buttons
V3_update_servo_device_state(mode) ==
    V3_edit("update_servo_device_state", <<mode>>,
        IF mode = "all"
        THEN [gui EXCEPT !.servo_target_mode = mode, !.servo_device_var = AllEntry]
        ELSE [gui EXCEPT !.servo_target_mode = mode])

\* the servo Device combobox (readonly while the mode is "individual")
V3_select_servo_device(k) ==
    /\ gui.servo_target_mode = "individual"
    /\ k \in 1..Len(gui.servo_device_values)
    /\ V3_edit("select_servo_device", <<k>>,
           [gui EXCEPT !.servo_device_var = gui.servo_device_values[k]])


(***************************************************************************)
(* V1: commands.                                                           *)
(***************************************************************************)
\* f"{device},servo,{angle}" and f"{device},current,{current}"
ServoCmd(device, angle) == device \o <<",servo,">> \o Str(angle)
CurrentCmd(device, current) == device \o <<",current,">> \o Str(current)

\* send_command(command), entered with gui state g; `wfail` says whether the
\* write raises
V1_send_command(g, command, wfail) ==
    IF is_connected /\ serial_port # 0
    THEN IF wfail \/ serial_port \notin open
         THEN [gui |-> V1_log_message(g, <<"U+274C", " Send error: ">> \o ExcText),
               tx |-> Append(tx, Write(command \o <<NL>>, serial_port, FALSE)),
               dialog |-> ""]
         ELSE [gui |-> V1_log_message(g, <<"U+2192", " ">> \o command),
               tx |-> Append(tx, Write(command \o <<NL>>, serial_port, TRUE)),
               dialog |-> ""]
    ELSE [gui |-> g, tx |-> tx, dialog |-> "Not connected to device"]

\* a command handler of the interactive thread that ends in state r.gui, r.tx
V1_command(op, arg, r) ==
    /\ variant = "V1"
    /\ gui' = r.gui
    /\ tx' = r.tx
    /\ ev' = Event(op, arg, r.dialog)
    /\ UNCHANGED <<variant, exported, connVars, readers, mainpc, message_queue, tkq, timers,
                   demoVars, histVars>>

V1_get_status(wfail) ==
    V1_command("get_status", <<>>, V1_send_command(gui, <<"status">>, wfail))

V1_reinitialize(wfail) ==
    V1_command("reinitialize", <<>>, V1_send_command(gui, <<"reinit">>, wfail))

V1_get_current_status(wfail) ==
    V1_command("get_current_status", <<>>, V1_send_command(gui, <<"current">>, wfail))

\* an emergency handler that sends whatever the answer is
V1_emergency_shutdown_unconfirmed(yes, wfail) ==
    V1_command("emergency_shutdown", <<yes>>, V1_send_command(gui, <<"emergency">>, wfail))

\* emergency_shutdown(); `yes` is the answer to messagebox.askyesno
V1_emergency_shutdown(yes, wfail) ==
    V1_command("emergency_shutdown", <<yes>>,
        IF yes THEN V1_send_command(gui, <<"emergency">>, wfail)
        ELSE [gui |-> gui, tx |-> tx, dialog |-> ""])

\* a set_servo that leaves the device out
V1_set_servo_without_device(angle, wfail) ==
    V1_command("set_servo", <<angle>>,
        V1_send_command(gui, <<"servo,">> \o Str(angle), wfail))

\* set_servo(); `angle` is servo_angle_var.get()
V1_set_servo(angle, wfail) ==
    V1_command("set_servo", <<angle>>,
        LET device == IF gui.servo_target_mode = "all" THEN Dev000
                      ELSE gui.servo_device_var
        IN  V1_send_command(gui, ServoCmd(device, angle), wfail))

\* a set_current that addresses every device whatever the target mode
V1_set_current_to_all(current, wfail) ==
    V1_command("set_current", <<current>>,
        V1_send_command(gui, CurrentCmd(Dev000, current), wfail))

\* set_current(); `current` is current_value_var.get()
V1_set_current(current, wfail) ==
    V1_command("set_current", <<current>>,
        LET device == IF gui.current_target_var = "all" THEN Dev000
                      ELSE gui.current_device_var
        IN  V1_send_command(gui, CurrentCmd(device, current), wfail))

\* the get_status that toggle_connection scheduled with root.after(500, ...)
V1_scheduled_get_status(wfail) ==
    /\ variant = "V1"
    /\ timers.get_status > 0
    /\ timers' = [timers EXCEPT !.get_status = @ - 1]
    /\ LET r == V1_send_command(gui, <<"status">>, wfail)
       IN  /\ gui' = r.gui
           /\ tx' = r.tx
           /\ ev' = Event("get_status", <<"scheduled">>, r.dialog)
    /\ UNCHANGED <<variant, exported, connVars, readers, mainpc, message_queue, tkq, demoVars,
                   histVars>>

\* the oldest callback queued with root.after(0, ...) runs in the interactive thread
V1_tk_callback(wfail) ==
    /\ variant = "V1"
    /\ tkq # <<>>
    /\ LET cb == Head(tkq)
           p == V1_process_serial_data(gui, cb.arg)
           c == V1_send_command(gui, cb.arg, wfail)
       IN  /\ ev' = Event(cb.fn, <<cb.arg>>, IF cb.fn = "send_command" THEN c.dialog ELSE "")
           /\ IF cb.fn = "process_serial_data"
              THEN /\ gui' = p.gui
                   /\ tkq' = IF p.queued
                             THEN Append(Tail(tkq), Callback("update_device_lists", <<>>))
                             ELSE Tail(tkq)
                   /\ dispatched' = Append(dispatched, cb.arg)
                   /\ UNCHANGED tx
              ELSE IF cb.fn = "send_command"
              THEN /\ gui' = c.gui
                   /\ tx' = c.tx
                   /\ tkq' = Tail(tkq)
                   /\ UNCHANGED dispatched
              ELSE IF cb.fn = "update_device_lists"
              THEN /\ gui' = V1_update_device_lists(gui)
                   /\ tkq' = Tail(tkq)
                   /\ UNCHANGED <<tx, dispatched>>
              ELSE /\ gui' = V1_log_message(gui, cb.arg)
                   /\ tkq' = Tail(tkq)
                   /\ UNCHANGED <<tx, dispatched>>
    /\ UNCHANGED <<variant, exported, connVars, readers, mainpc, message_queue, timers, demoVars,
                   handed>>

(***************************************************************************)
(* V1: demo patterns.                                                      *)
(***************************************************************************)
\* the commands of a demo, in the order its loops schedule them
Twice(cmds) == cmds \o cmds

DemoCommands(demo_type) ==
    IF demo_type = "dance"
    THEN Twice(<<ServoCmd(Dev000, 60), ServoCmd(Dev000, 120), ServoCmd(Dev000, 90),
                 CurrentCmd(Dev000, 50), CurrentCmd(Dev000, 0)>>)
    ELSE IF demo_type = "wave"
    THEN Twice([k \in 1..8 |->
                   ServoCmd(Dev000, <<60, 75, 90, 105, 120, 105, 90, 75>>[k])])
    ELSE Twice([k \in 1..7 |->
                   CurrentCmd(Dev000, <<0, 250, 500, 650, 500, 250, 0>>[k])])

\* run_demo(demo_type)
V1_run_demo(demo_type) ==
    /\ variant = "V1"
    /\ IF demo_running
       THEN /\ ev' = Event("run_demo", <<demo_type>>, "Demo Running")
            /\ UNCHANGED <<demoVars, gui>>
       ELSE IF ~is_connected
       THEN /\ ev' = Event("run_demo", <<demo_type>>, "Not connected to device")
            /\ UNCHANGED <<demoVars, gui>>
       ELSE /\ Len(demos) < MaxDemoThreads
            /\ demo_running' = TRUE
            /\ demos' = Append(demos, [type |-> demo_type, idx |-> 0, pc |-> "check"])
            /\ stop_signal' = FALSE
            /\ gui' = V1_log_message(gui,
                          <<"U+1F3AC", " Starting ", demo_type, " demo...">>)
            /\ ev' = Event("run_demo", <<demo_type>>, "")
    /\ UNCHANGED <<variant, exported, connVars, readers, mainpc, message_queue, tkq, timers, tx,
                   histVars>>

\* stop_demo()
V1_stop_demo ==
    /\ variant = "V1"
    /\ IF demo_running
       THEN /\ demo_running' = FALSE
            /\ stop_signal' = TRUE
            /\ gui' = V1_log_message(gui, <<"U+23F9", " Demo stopped">>)
       ELSE /\ gui' = V1_log_message(gui, <<"U+2139", " No demo running">>)
            /\ UNCHANGED <<demo_running, stop_signal>>
    /\ ev' = Event("stop_demo", <<demo_running>>, "")
    /\ UNCHANGED <<variant, exported, connVars, readers, mainpc, message_queue, tkq, timers, tx,
                   demos, histVars>>

\* a demo thread that writes its commands to the port itself
V1_run_demo_thread_writes(i) ==
    /\ variant = "V1"
    /\ i \in 1..Len(demos)
    /\ LET d == demos[i]
           cmds == DemoCommands(d.type)
           half == Len(cmds) \div 2
           \* wave and rainbow test the flag in an inner loop: its break leaves the
           \* first cycle for the test at the top of the second
           to_next_cycle == d.type # "dance" /\ d.idx < half
       IN  /\ d.pc \in {"check", "check_cycle", "schedule", "finally"}
           /\ IF d.pc = "check"
              THEN /\ demos' = IF demo_running THEN [demos EXCEPT ![i].pc = "schedule"]
                                ELSE IF to_next_cycle
                                THEN [demos EXCEPT ![i].pc = "check_cycle", ![i].idx = half]
                                ELSE [demos EXCEPT ![i].pc = "finally"]
                   /\ UNCHANGED <<tkq, tx, demo_running>>
              ELSE IF d.pc = "check_cycle"
              THEN /\ demos' = [demos EXCEPT
                                   ![i].pc = IF demo_running THEN "check" ELSE "finally"]
                   /\ UNCHANGED <<tkq, tx, demo_running>>
              ELSE IF d.pc = "schedule"
              THEN /\ d.idx < MaxDemo
                   /\ tx' = Append(tx, Write(cmds[d.idx + 1] \o <<NL>>, serial_port, TRUE))
                   /\ tkq' = tkq
                   /\ demos' = [demos EXCEPT
                                   ![i].idx = d.idx + 1,
                                   ![i].pc = IF d.idx + 1 = Len(cmds)
                                             THEN "finally" ELSE "check"]
                   /\ UNCHANGED demo_running
              ELSE /\ demo_running' = FALSE
                   /\ tkq' = Append(tkq, Callback("log_message",
                                             <<"U+1F3AC", " Demo completed">>))
                   /\ demos' = [demos EXCEPT ![i].pc = "done"]
                   /\ tx' = tx
    /\ UNCHANGED <<ev, variant, exported, connVars, readers, mainpc, message_queue, timers, gui,
                   stop_signal, histVars>>

\* _run_demo_thread(demo_type), demo thread i: one step.
\*   check     if not self.demo_running: break
\*   check_cycle  the same test at the top of the second cycle
\*   schedule  self.root.after(0, self.send_command, <next command>), then sleep
\*   finally   self.demo_running = False; root.after(0, log_message, "Demo completed")
V1_run_demo_thread(i) ==
    /\ variant = "V1"
    /\ i \in 1..Len(demos)
    /\ LET d == demos[i]
           cmds == DemoCommands(d.type)
           half == Len(cmds) \div 2
           \* wave and rainbow test the flag in an inner loop: its break leaves the
           \* first cycle for the test at the top of the second
           to_next_cycle == d.type # "dance" /\ d.idx < half
       IN  /\ d.pc \in {"check", "check_cycle", "schedule", "finally"}
           /\ IF d.pc = "check"
              THEN /\ demos' = IF demo_running THEN [demos EXCEPT ![i].pc = "schedule"]
                                ELSE IF to_next_cycle
                                THEN [demos EXCEPT ![i].pc = "check_cycle", ![i].idx = half]
                                ELSE [demos EXCEPT ![i].pc = "finally"]
                   /\ UNCHANGED <<tkq, demo_running>>
              ELSE IF d.pc = "check_cycle"
              THEN /\ demos' = [demos EXCEPT
                                   ![i].pc = IF demo_running THEN "check" ELSE "finally"]
                   /\ UNCHANGED <<tkq, demo_running>>
              ELSE IF d.pc = "schedule"
              THEN /\ d.idx < MaxDemo
                   /\ tkq' = Append(tkq, Callback("send_command", cmds[d.idx + 1]))
                   /\ demos' = [demos EXCEPT
                                   ![i].idx = d.idx + 1,
                                   ![i].pc = IF d.idx + 1 = Len(cmds)
                                             THEN "finally" ELSE "check"]
                   /\ UNCHANGED demo_running
              ELSE /\ demo_running' = FALSE
                   /\ tkq' = Append(tkq, Callback("log_message",
                                             <<"U+1F3AC", " Demo completed">>))
                   /\ demos' = [demos EXCEPT ![i].pc = "done"]
    /\ UNCHANGED <<ev, variant, exported, connVars, readers, mainpc, message_queue, timers, gui, tx,
                   stop_signal, histVars>>


(***************************************************************************)
(* V1: what the user does to the entry widgets.                            *)
(* (gui.servo_target_mode is V1's servo_target_var, gui.debug_filter_var   *)
(* is V1's filter_debug_var.)                                              *)
(***************************************************************************)
V1_edit(op, arg, g) ==
    /\ variant = "V1"
    /\ gui' = g
    /\ gui' # gui
    /\ ev' = Event(op, arg, "")
    /\ UNCHANGED <<variant, exported, connVars, readers, mainpc, message_queue, tkq, timers, tx,
                   demoVars, histVars>>

\* update_servo_device_list(): the All Servos / Individual radio buttons
V1_update_servo_device_list(mode) ==
    V1_edit("update_servo_device_list", <<mode>>,
        LET g == [gui EXCEPT !.servo_target_mode = mode]
            device_list == V1_device_list(g.total_devices)
        IN  IF mode = "all"
            THEN [g EXCEPT !.servo_device_var = Dev000]
            ELSE IF g.total_devices > 0
            THEN [g EXCEPT !.servo_device_values = device_list,
                           !.servo_device_var = IF InList(@, device_list) THEN @ ELSE Dev001]
            ELSE g)

\* update_current_device_list(): the All LEDs / Individual radio buttons
V1_update_current_device_list(mode) ==
    V1_edit("update_current_device_list", <<mode>>,
        LET g == [gui EXCEPT !.current_target_var = mode]
            device_list == V1_device_list(g.total_devices)
        IN  IF mode = "all"
            THEN [g EXCEPT !.current_device_var = Dev000]
            ELSE IF g.total_devices > 0
            THEN [g EXCEPT !.current_device_values = device_list,
                           !.current_device_var = IF InList(@, device_list) THEN @ ELSE Dev001]
            ELSE g)

\* the servo Device combobox (readonly while the mode is "individual")
V1_select_servo_device(k) ==
    /\ gui.servo_target_mode = "individual"
    /\ k \in 1..Len(gui.servo_device_values)
    /\ V1_edit("select_servo_device", <<k>>,
           [gui EXCEPT !.servo_device_var = gui.servo_device_values[k]])

\* the current Device combobox (readonly while the mode is "individual")
V1_select_current_device(k) ==
    /\ gui.current_target_var = "individual"
    /\ k \in 1..Len(gui.current_device_values)
    /\ V1_edit("select_current_device", <<k>>,
           [gui EXCEPT !.current_device_var = gui.current_device_values[k]])

(***************************************************************************)
(* Scenarios.  Each is the program under one environment: the handlers are *)
(* the same, the moves of the user and of the device differ and are        *)
(* counted.                                                                *)
(***************************************************************************)
\* a step of the program itself: a thread, a timer, a queued callback
Internal(A) == A /\ UNCHANGED cntVars

\* the user presses Connect / Disconnect or Refresh
UserMove(A) ==
    nuser < MaxUser /\ nuser' = nuser + 1 /\ A /\ UNCHANGED <<nrx, ncmd, nedit>>

\* the user changes an entry widget
EditMove(A) ==
    nedit < MaxEdit /\ nedit' = nedit + 1 /\ A /\ UNCHANGED <<nrx, ncmd, nuser>>

\* the user issues a command
CommandMove(A) ==
    ncmd < MaxCmd /\ ncmd' = ncmd + 1 /\ A /\ UNCHANGED <<nrx, nuser, nedit>>

\* the device sends a line, which a reader reads
DeviceMove(bound, A) ==
    nrx < bound /\ nrx' = nrx + 1 /\ A /\ UNCHANGED <<ncmd, nuser, nedit>>

\* ---- connections: the user toggles the connection, the device sends RxLines
ReaderIdle == \E i \in 1..MaxConn : V3_read_serial(i, "idle", <<>>) \/ V1_read_serial(i, "idle", <<>>)

ReaderFails ==
    \E i \in 1..MaxConn : V3_read_serial(i, "ioerror", <<>>) \/ V1_read_serial(i, "ioerror", <<>>)

ReaderReads(Lines) ==
    \E i \in 1..MaxConn : \E raw \in Lines :
        V3_read_serial(i, "line", raw) \/ V1_read_serial(i, "line", raw)

NextConn ==
    \/ UserMove(\E opens \in BOOLEAN : V3_toggle_connection(opens))
    \/ Internal(\E opens \in BOOLEAN : V3_try_auto_connect(opens))
    \/ Internal(\E timed_out \in BOOLEAN : \E close_raises \in BOOLEAN : V3_disconnect_end(timed_out, close_raises))
    \/ Internal(V3_process_queue)
    \/ UserMove(\E opens \in BOOLEAN : \E close_raises \in BOOLEAN : V1_toggle_connection(opens, close_raises))
    \/ Internal(\E opens \in BOOLEAN : \E close_raises \in BOOLEAN : V1_scheduled_toggle_connection(opens, close_raises))
    \/ UserMove(\E ports \in {<<>>, <<PortName>>} : V1_refresh_ports(ports))
    \/ Internal(\E ports \in {<<>>, <<PortName>>} : V1_initial_auto_connect(ports))
    \/ Internal(V1_tk_callback(FALSE))
    \/ Internal(ReaderIdle)
    \/ Internal(ReaderFails)
    \/ DeviceMove(MaxRx, ReaderReads(RxLines))

SpecConn == Init /\ [][NextConn]_vars

(***************************************************************************)
(* The command scenario: the user connects, fills in entry widgets and     *)
(* presses command buttons; the device stays silent.                       *)
(***************************************************************************)
V3_SystemCommand ==
    \E wfail \in BOOLEAN :
        \/ V3_send_status_command(wfail)
        \/ V3_send_reinit_command(wfail)
        \/ \E yes \in BOOLEAN : V3_send_emergency_command(yes, wfail)
        \/ \E yes \in BOOLEAN : V3_send_start_command(yes, wfail)

V1_SystemCommand ==
    \E wfail \in BOOLEAN :
        \/ V1_get_status(wfail)
        \/ V1_reinitialize(wfail)
        \/ V1_get_current_status(wfail)
        \/ \E yes \in BOOLEAN : V1_emergency_shutdown(yes, wfail)

NextCmd ==
    \/ UserMove(V3_toggle_connection(TRUE))
    \/ Internal(V3_try_auto_connect(TRUE))
    \/ Internal(\E timed_out \in BOOLEAN : V3_disconnect_end(timed_out, FALSE))
    \/ Internal(V3_auto_request_status(FALSE))
    \/ EditMove(\E n \in GroupTotals : \E bound \in BOOLEAN : V3_edit_group_total(n, bound))
    \/ EditMove(\E k \in 1..Len(gui.group_id_values) : V3_select_group_id(k))
    \/ EditMove(\E f \in FrameEdits : V3_edit_frame(f[1], f[2]))
    \/ EditMove(\E mode \in {"all", "individual"} : V3_update_servo_device_state(mode))
    \/ CommandMove(V3_SystemCommand)
    \/ CommandMove(\E angle \in Angles : \E wfail \in BOOLEAN :
                       V3_send_servo_command(angle, wfail))
    \/ CommandMove(\E current \in Currents : \E exposure \in Exposures :
                       \E wfail \in BOOLEAN :
                           V3_send_program_command(current, exposure, wfail))
    \/ CommandMove(\E wfail \in BOOLEAN : V3_send_frame_command(wfail))
    \/ UserMove(V1_toggle_connection(TRUE, FALSE))
    \/ Internal(V1_scheduled_toggle_connection(TRUE, FALSE))
    \/ Internal(V1_initial_auto_connect(<<PortName>>))
    \/ Internal(V1_scheduled_get_status(FALSE))
    \/ EditMove(\E mode \in {"all", "individual"} : V1_update_servo_device_list(mode))
    \/ EditMove(\E mode \in {"all", "individual"} : V1_update_current_device_list(mode))
    \/ CommandMove(V1_SystemCommand)
    \/ CommandMove(\E angle \in Angles : \E wfail \in BOOLEAN : V1_set_servo(angle, wfail))
    \/ CommandMove(\E current \in Currents : \E wfail \in BOOLEAN :
                       V1_set_current(current, wfail))

SpecCmd == Init /\ [][NextCmd]_vars

(***************************************************************************)
(* The dispatcher scenario: the client connects by itself and the device   *)
(* sends lines of every kind the dispatchers tell apart.                   *)
(***************************************************************************)
\* what may follow a tag whose payload the dispatchers parse as a number
NumPayloads == SeqsUpTo({"2", ":", "a", "-"}, MaxPayload) \cup {<<"5", ":", "7">>}
\* what may follow a tag whose payload the dispatchers keep as text
TextPayloads == SeqsUpTo({"a", ":"}, MaxPayload)
\* what may follow the other tags
FewPayloads == {<<>>, <<"a">>}

NumTags == {T_TOTAL, T_GROUP_TOTAL, T_FRAME_COUNT, T_INTERFRAME_DELAY}
TextTags == {T_STATE, T_INA226, T_VER}
OtherTags ==
    {T_EOT, T_PROGRAM_ACK, T_FRAME_SET, T_ERR, T_ERROR, T_EMERGENCY, T_DEBUG, T_HEADER,
     T_POWER, <<>>}

\* the lines the device sends, each ended by "\r\n" of which readline keeps "\r"
FeedLines ==
    {(l \o <<"\r">>) : l \in
        ({t \o q : t \in NumTags, q \in NumPayloads}
            \cup {t \o q : t \in TextTags, q \in TextPayloads}
            \cup {t \o q : t \in OtherTags, q \in FewPayloads}) \ {<<>>}}

NextDispatch ==
    \/ Internal(V3_try_auto_connect(TRUE))
    \/ Internal(V1_scheduled_toggle_connection(TRUE, FALSE))
    \/ Internal(ReaderIdle)
    \/ DeviceMove(MaxFeed, ReaderReads(FeedLines))
    \/ Internal(V3_process_queue)
    \/ Internal(V1_tk_callback(FALSE))

SpecDispatch == Init /\ [][NextDispatch]_vars

(***************************************************************************)
(* The demo scenario (V1): the user connects, starts and stops demos and   *)
(* toggles the connection while demo threads schedule their commands.      *)
(***************************************************************************)
DemoTypes == {"dance", "wave", "rainbow"}

NextDemo ==
    \/ Internal(V1_scheduled_toggle_connection(TRUE, FALSE))
    \/ UserMove(V1_toggle_connection(TRUE, FALSE))
    \/ UserMove(\E demo_type \in DemoTypes : V1_run_demo(demo_type))
    \/ UserMove(V1_stop_demo)
    \/ Internal(\E i \in 1..MaxDemoThreads : V1_run_demo_thread(i))
    \/ Internal(V1_tk_callback(FALSE))

SpecDemo == Init /\ [][NextDemo]_vars

(***************************************************************************)
(* Properties of the connection scenario.                                  *)
(***************************************************************************)
\* the lines handed off and not yet dispatched, oldest first
RECURSIVE QueuedLines(_)
QueuedLines(q) ==
    IF q = <<>> THEN <<>>
    ELSE (IF Head(q)[1] = "serial" THEN <<Head(q)[2]>> ELSE <<>>) \o QueuedLines(Tail(q))

RECURSIVE ScheduledLines(_)
ScheduledLines(q) ==
    IF q = <<>> THEN <<>>
    ELSE (IF Head(q).fn = "process_serial_data" THEN <<Head(q).arg>> ELSE <<>>)
             \o ScheduledLines(Tail(q))

PendingLines == IF variant = "V3" THEN QueuedLines(message_queue) ELSE ScheduledLines(tkq)

\* C7: in both variants the lines the reader handed off are dispatched in exactly
\* the hand-off order: at every moment the hand-off history is the dispatch
\* history followed by the lines still pending, so no line is dropped, duplicated,
\* reordered or merged between hand-off and dispatch.
C7_DispatchInHandOffOrder == handed = dispatched \o PendingLines

\* a V3 process_queue run that drained two different lines
C7_Witness ==
    /\ variant = "V3"
    /\ ev.op = "process_queue"
    /\ ev.arg = <<2>>
    /\ Len(dispatched) = 2
    /\ dispatched[1] # dispatched[2]

\* the readers that are inside their loop, about to read from the open port
ReadersOnPort ==
    {i \in 1..Len(readers) :
        readers[i].pc = "try" /\ serial_port # 0 /\ serial_port \in open}

\* C8: in V3, after a disconnect whose join timed out and a new connect, only the
\* reader started by that connect reads from the new connection; a reader
\* abandoned by an earlier disconnect never reads from the new serial port.
C8_OnlyCurrentReaderReads ==
    variant = "V3" => \A i \in ReadersOnPort : i = read_thread

\* C10: in both variants at most one serial connection is open at any time, and a
\* step taken while a connection is open opens no second handle and starts no
\* second reader.
C10_SingleConnection ==
    [][/\ Cardinality(open') <= 1
       /\ open # {} => nconn' = nconn /\ Len(readers') = Len(readers)]_vars

\* V3's auto-connect timer fired while the user's connection was already open
C10_Witness ==
    /\ variant = "V3"
    /\ ev.op = "try_auto_connect"
    /\ is_connected
    /\ Cardinality(open) = 1

(***************************************************************************)
(* Properties of the command scenario.                                     *)
(***************************************************************************)
\* this step is the command handler `op`
CmdStep(op) == ncmd' = ncmd + 1 /\ ev'.op = op

\* this step calls serial_port.write once / not at all
Wrote == Len(tx') = Len(tx) + 1 /\ SubSeq(tx', 1, Len(tx)) = tx
WroteNothing == tx' = tx

\* the text of the newest write
LastData(t) == t[Len(t)].data

\* data is a device field of at most three characters followed by text
IsDeviceThen(data, text) ==
    \E n \in 0..3 : Len(data) = n + Len(text) /\ SubSeq(data, n + 1, Len(data)) = text

\* the log is what it was
LogUnchanged == gui'.log_buffer = gui.log_buffer /\ gui'.log_text = gui.log_text

\* C2: in V3, for every angle a, send_servo_command writes a servo command to the
\* transport if and only if 60 <= a <= 120 and the client is connected; for a
\* outside the range it reports a validation error, writes nothing and appends
\* nothing to the log.
C2_ServoRange ==
    [][CmdStep("send_servo_command") =>
          LET a == ev'.arg[1]
              in_range == 60 <= a /\ a <= 120
          IN  /\ Wrote \/ WroteNothing
              /\ Wrote <=> (in_range /\ is_connected)
              /\ Wrote => IsDeviceThen(LastData(tx'), <<",servo,">> \o Str(a) \o <<NL>>)
              /\ ~in_range => ev'.dialog = "Invalid Angle" /\ WroteNothing /\ LogUnchanged
      ]_vars

\* the servo command for 120 degrees, the upper end of the range, was written
C2_Witness ==
    /\ ev.op = "send_servo_command"
    /\ ev.arg = <<120>>
    /\ tx # <<>>
    /\ LastData(tx) = Dev000 \o <<",servo,", "1", "2", "0", NL>>

\* a write of the form <device><keyword><number>, and its number
IsCmd(data, keyword) == Len(data) >= 6 /\ data[4] = keyword
CmdValue(data) == ParseInt(SubSeq(data, 5, Len(data) - 1)).val

\* C3: in V1 no servo command with an angle outside [60,120] and no current
\* command with a value outside [0,1500] is ever written to the transport.
C3_V1RangeChecked ==
    variant = "V1" =>
        \A k \in 1..Len(tx) :
            /\ IsCmd(tx[k].data, ",servo,") =>
                   60 <= CmdValue(tx[k].data) /\ CmdValue(tx[k].data) <= 120
            /\ IsCmd(tx[k].data, ",current,") =>
                   0 <= CmdValue(tx[k].data) /\ CmdValue(tx[k].data) <= 1500

\* the fields send_program_command reads, and whether they pass its validation
ProgramText(current, exposure) ==
    <<",program,{">> \o gui.group_id_var \o <<",">> \o Str(gui.group_total_var)
        \o <<",">> \o Str(current) \o <<",">> \o Str(exposure) \o <<"}", NL>>

ProgramValid(current, exposure) ==
    /\ 0 <= current /\ current <= 1500
    /\ exposure >= 10
    /\ 1 <= ParseInt(gui.group_id_var).val
    /\ ParseInt(gui.group_id_var).val <= gui.group_total_var

\* C4 as stated: in V3 send_program_command writes the program command if and
\* only if 0 <= ma <= 1500, exposureMs >= 10 and 1 <= groupId <= groupTotal.
C4_ProgramIffValid ==
    [][CmdStep("send_program_command") =>
          (Wrote <=> ProgramValid(ev'.arg[1], ev'.arg[2]))]_vars

\* C4, amended: in V3 send_program_command writes
\* "<device>,program,{<groupId>,<groupTotal>,<ma>,<exposureMs>}" to the transport
\* if and only if the client is connected and 0 <= ma <= 1500, exposureMs >= 10
\* and 1 <= groupId <= groupTotal; otherwise it writes nothing.
C4_ProgramIffValidAndConnected ==
    [][CmdStep("send_program_command") =>
          /\ Wrote \/ WroteNothing
          /\ Wrote <=> (is_connected /\ ProgramValid(ev'.arg[1], ev'.arg[2]))
          /\ Wrote => IsDeviceThen(LastData(tx'), ProgramText(ev'.arg[1], ev'.arg[2]))
      ]_vars

\* group 3 of 3 was accepted and written
C4_Witness ==
    /\ ev.op = "send_program_command"
    /\ gui.group_id_var = <<"3">>
    /\ gui.group_total_var = 3
    /\ tx # <<>>
    /\ IsDeviceThen(LastData(tx), ProgramText(ev.arg[1], ev.arg[2]))

\* group 5 of 3 was rejected
C4_Rejected5of3 ==
    /\ ev.op = "send_program_command"
    /\ ev.dialog = "Invalid Group"
    /\ gui.group_id_var = <<"5">>
    /\ gui.group_total_var = 3
    /\ is_connected
    /\ tx = <<>>

FrameText ==
    <<"frame,">> \o Str(gui.frame_count_var) \o <<",">> \o Str(gui.interframe_delay_var)
        \o <<NL>>

FrameValid ==
    1 <= gui.frame_count_var /\ gui.frame_count_var <= 1000 /\ gui.interframe_delay_var >= 5

\* C5 as stated: in V3 send_frame_command writes the frame command if and only if
\* 1 <= frameCount <= 1000 and delayMs >= 5.
C5_FrameIffValid == [][CmdStep("send_frame_command") => (Wrote <=> FrameValid)]_vars

\* C5, amended: in V3 send_frame_command writes "frame,<frameCount>,<delayMs>" to
\* the transport if and only if the client is connected, 1 <= frameCount <= 1000
\* and delayMs >= 5; otherwise nothing is written.
C5_FrameIffValidAndConnected ==
    [][CmdStep("send_frame_command") =>
          /\ Wrote \/ WroteNothing
          /\ Wrote <=> (is_connected /\ FrameValid)
          /\ Wrote => LastData(tx') = FrameText
      ]_vars

\* the frame command for 1000 frames was written
C5_Witness ==
    /\ ev.op = "send_frame_command"
    /\ gui.frame_count_var = 1000
    /\ tx # <<>>
    /\ LastData(tx) = <<"frame,", "1", "0", "0", "0", ",", "1", "0", NL>>

EmergencyHandlers == {"send_emergency_command", "emergency_shutdown"}

\* C6: in both variants "emergency" is written to the transport only in a step of
\* the emergency handler in which the confirmation prompt was answered yes; a step
\* in which it was declined writes nothing and appends nothing to the log.
C6_EmergencyNeedsYes ==
    [][/\ (Len(tx') > Len(tx) /\ LastData(tx') = <<"emergency", NL>>) =>
              (ncmd' = ncmd + 1 /\ ev'.op \in EmergencyHandlers /\ ev'.arg = <<TRUE>>)
       /\ (ncmd' = ncmd + 1 /\ ev'.op \in EmergencyHandlers /\ ev'.arg = <<FALSE>>) =>
              (WroteNothing /\ LogUnchanged)
      ]_vars

\* V1 wrote "emergency" after the prompt was answered yes
C6_Witness ==
    /\ variant = "V1"
    /\ ev.op = "emergency_shutdown"
    /\ ev.arg = <<TRUE>>
    /\ tx # <<>>
    /\ LastData(tx) = <<"emergency", NL>>

(***************************************************************************)
(* Properties of the dispatcher scenario.                                  *)
(***************************************************************************)
\* this step dispatches exactly one line, which starts with `tag`
Dispatches(tag) ==
    /\ Len(dispatched') = Len(dispatched) + 1
    /\ StartsWith(dispatched'[Len(dispatched')], tag)

\* what follows the tag in the line this step dispatches
DispatchedPayload(tag) ==
    SubSeq(dispatched'[Len(dispatched')], Len(tag) + 1, Len(dispatched'[Len(dispatched')]))

\* the decimal digits of an integer n >= 0
IsDecimalNat(p) == p # <<>> /\ \A i \in 1..Len(p) : IsDigit(p[i])
\* a decimal integer: digits after an optional sign
IsDecimalInt(p) ==
    \/ IsDecimalNat(p)
    \/ Len(p) >= 2 /\ p[1] \in {"-", "+"} /\ IsDecimalNat(Tail(p))

\* C1: in both variants, for every integer n >= 0 dispatching the line "TOTAL:<n>"
\* leaves total_devices equal to n, and dispatching a "TOTAL:" line whose payload
\* is not a decimal integer (empty, alphabetic, or with a further ':') leaves
\* total_devices unchanged.
C1_TotalSetOrKept ==
    [][Dispatches(T_TOTAL) =>
          LET p == DispatchedPayload(T_TOTAL)
          IN  /\ IsDecimalNat(p) => gui'.total_devices = DigitsValue(p)
              /\ ~IsDecimalInt(p) => gui'.total_devices = gui.total_devices
      ]_vars

\* the same for V3 alone
C1_TotalSetOrKeptV3 ==
    [][(variant = "V3" /\ Dispatches(T_TOTAL)) =>
          LET p == DispatchedPayload(T_TOTAL)
          IN  /\ IsDecimalNat(p) => gui'.total_devices = DigitsValue(p)
              /\ ~IsDecimalInt(p) => gui'.total_devices = gui.total_devices
      ]_vars

(***************************************************************************)
(* Properties of the demo scenario.                                        *)
(***************************************************************************)
\* this step runs a send_command that a demo thread queued with root.after(0, ...)
RunsDemoCommand ==
    tkq # <<>> /\ Head(tkq).fn = "send_command" /\ tkq' = Tail(tkq)

\* C9: in V1, once the stop signal is observed (stop_demo has cleared demo_running,
\* or the connection was closed during a demo) no further demo command is written
\* to the transport, the commands the demo thread had already queued included.
C9_NoDemoWriteAfterStop ==
    [][(variant = "V1" /\ stop_signal /\ RunsDemoCommand) => tx' = tx]_vars

(***************************************************************************)
(* Properties of failures: opening, reading, disconnecting.                *)
(***************************************************************************)
\* a step of connect() (V3) or of toggle_connection's connect branch (V1) in which
\* serial.Serial raised; reader steps change neither ev nor gui
OpenFailedStep == ev'.dialog = "Connection Error" /\ <<ev, gui>>' # <<ev, gui>>

\* the entry the step added to the log, << >> when it added none or several
AddedLogEntry ==
    IF variant = "V3"
    THEN IF gui'.log_buffer = Append(gui.log_buffer, gui'.log_buffer[Len(gui'.log_buffer)])
         THEN gui'.log_buffer[Len(gui'.log_buffer)]
         ELSE <<>>
    ELSE IF gui'.log_text = Append(gui.log_text, gui'.log_text[Len(gui'.log_text)])
         THEN gui'.log_text[Len(gui'.log_text)]
         ELSE <<>>

\* C11: in both variants, when opening the port fails the client stays
\* disconnected: is_connected is false before and after, no reader thread is
\* started, no status request is scheduled, and one error entry is logged.
C11_OpenFailureStaysDisconnected ==
    [][OpenFailedStep =>
          /\ ~is_connected /\ ~is_connected'
          /\ UNCHANGED <<readers, read_thread, serial_port, open>>
          /\ timers'.auto_request_status = timers.auto_request_status
          /\ timers'.get_status = timers.get_status
          /\ IF variant = "V3"
             THEN /\ AddedLogEntry # <<>>
                  /\ AddedLogEntry[2] = "error"
                  /\ Contains(AddedLogEntry[1], <<"Connection failed: ">>)
                  /\ Len(gui'.log_text) = Len(gui.log_text) + 1
             ELSE Contains(AddedLogEntry, <<" Connection failed: ">>)]_vars

\* the first open of a session failed, in V1: nothing was started
C11_Witness ==
    /\ variant = "V1"
    /\ ev.dialog = "Connection Error"
    /\ ~is_connected
    /\ readers = <<>>
    /\ timers.get_status = 0
    /\ Len(gui.log_text) = 1

\* the last handler of the interactive thread was a disconnect that completed
AfterDisconnect ==
    /\ ~is_connected
    /\ nconn > 0
    /\ IF variant = "V3"
       THEN ev.op = "disconnect" /\ Len(ev.arg) = 2
       ELSE ev.op = "toggle_connection" /\ ev.dialog = ""

\* C12: in both variants, after a disconnect every Device State field holds its
\* default: total_devices is 0 and system_state is "Unknown" (and in V1
\* ina226_status is "Unknown"), whatever was parsed during the connection.
C12_DisconnectResetsDeviceState ==
    AfterDisconnect =>
        /\ gui.total_devices = 0
        /\ gui.system_state = Unknown
        /\ variant = "V1" => gui.ina226_status = Unknown

\* the newest entry of the log, as the widget (V1) or the buffer (V3) holds it
LastLogText ==
    IF variant = "V3"
    THEN IF gui.log_buffer = <<>> THEN <<>> ELSE gui.log_buffer[Len(gui.log_buffer)][1]
    ELSE IF gui.log_text = <<>> THEN <<>> ELSE gui.log_text[Len(gui.log_text)]

\* the interactive thread has reported a reader's read error, and no handler has
\* logged anything since
ReadErrorReported ==
    \/ variant = "V3" /\ Contains(LastLogText, <<"Read error: ">>)
    \/ variant = "V1" /\ Contains(LastLogText, <<"Serial read error: ">>)

\* C13: in both variants, after a mid-session read error in the reader the client
\* is in the disconnected state: is_connected is false and the connection is
\* closed.
C13_ReadErrorDisconnects ==
    ReadErrorReported => ~is_connected /\ serial_port \notin open

\* the number of elements of s that satisfy Test
CountIn(s, Test(_)) == Cardinality({i \in 1..Len(s) : Test(s[i])})

IsBroke(r) == r.pc = "broke"
IsErrorItem(item) == item[1] = "error"
IsErrorCallback(cb) == cb.fn = "log_message"
IsV3ReadErrorEntry(e) == e[2] = "error" /\ Contains(e[1], <<"Read error: ">>)
IsV1ReadErrorEntry(e) == Contains(e, <<"Serial read error: ">>)

\* every read error is reported once: the readers that left their loop through the
\* except branch are as many as the error notices pending plus the error entries
\* the log shows
ReadErrorsReportedOnce ==
    CountIn(readers, IsBroke) =
        IF variant = "V3"
        THEN CountIn(message_queue, IsErrorItem) + CountIn(gui.log_text, IsV3ReadErrorEntry)
        ELSE CountIn(tkq, IsErrorCallback) + CountIn(gui.log_text, IsV1ReadErrorEntry)

\* a reader that left its loop through the except branch takes no further step
BrokenReaderStays ==
    \A i \in 1..Len(readers) : readers[i].pc = "broke" => readers'[i] = readers[i]

\* C14: in both variants a read error in the reader is reported exactly once as an
\* error log entry, and the reader loop in which it occurred then exits without
\* retrying the read: that loop makes no iteration after the error.
C14_ReadErrorOnceThenExit ==
    [][ReadErrorsReportedOnce' /\ BrokenReaderStays]_vars

\* V3, mid-session: the reader has left its loop on a read error, the error has
\* been logged once and the client still holds the connection
C14_Witness ==
    /\ variant = "V3"
    /\ is_connected
    /\ CountIn(readers, IsBroke) = 1
    /\ message_queue = <<>>
    /\ CountIn(gui.log_text, IsV3ReadErrorEntry) = 1

\* the reader started for the connection that is still open has left its loop
\* through the except branch: a read of this connection raised
ReadErrorOnOpenConnection ==
    /\ serial_port # 0
    /\ serial_port \in open
    /\ readers[serial_port].pc = "broke"

\* some reader executes the body of its try statement
ReaderIterates ==
    \E j \in 1..Len(readers) : readers[j].pc = "try" /\ readers'[j].pc # "try"

\* A stronger statement, which does not hold: after the read error no reader thread
\* at all iterates on that connection.  A reader left over from an earlier
\* connection (see C8_OnlyCurrentReaderReads) keeps iterating on it.
NoReaderIteratesAfterReadError ==
    [][ReadErrorOnOpenConnection => ~ReaderIterates]_vars

(***************************************************************************)
(* The termination scenario: the user connects and disconnects, the device *)
(* stays silent, and every reader thread is scheduled fairly.              *)
(***************************************************************************)
\* a step of reader thread i while the device sends nothing
ReaderStep(i) == V3_read_serial(i, "idle", <<>>) \/ V1_read_serial(i, "idle", <<>>)

NextTerm ==
    \/ UserMove(\E opens \in BOOLEAN : V3_toggle_connection(opens))
    \/ Internal(V3_try_auto_connect(TRUE))
    \/ Internal(\E timed_out \in BOOLEAN : V3_disconnect_end(timed_out, FALSE))
    \/ Internal(V3_process_queue)
    \/ UserMove(\E opens \in BOOLEAN : V1_toggle_connection(opens, FALSE))
    \/ Internal(V1_scheduled_toggle_connection(TRUE, FALSE))
    \/ Internal(V1_tk_callback(FALSE))
    \/ Internal(\E i \in 1..MaxConn : ReaderStep(i))

\* threading.Thread(daemon=True): the operating system keeps scheduling each
\* reader thread while it has a step to take
SpecTerm ==
    Init /\ [][NextTerm]_vars /\ \A i \in 1..MaxConn : WF_vars(Internal(ReaderStep(i)))

\* connection i was opened and has been closed
ConnectionClosed(i) == i <= nconn /\ i \notin open

\* the reader thread started for connection i has left read_serial
ReaderEnded(i) == i <= Len(readers) /\ readers[i].pc \in {"done", "broke", "crashed"}

\* C15: in both variants, after the connection is closed by a disconnect the reader
\* thread of that connection eventually observes the closed state and terminates,
\* under fair scheduling of the reader and without any further inbound data.
C15_ReaderTerminatesAfterDisconnect ==
    \A i \in 1..MaxConn : ConnectionClosed(i) ~> ReaderEnded(i)

\* What does hold: the reader terminates unless a new connection is opened before
\* it has tested its loop condition again.
ReaderTerminatesUnlessReconnected ==
    \A i \in 1..MaxConn : ConnectionClosed(i) ~> (ReaderEnded(i) \/ nconn > i)

(***************************************************************************)
(* Properties of the two contexts.                                         *)
(***************************************************************************)
\* the step is a step of a reader thread: a reader moved, none was started
ReaderStepTaken == Len(readers') = Len(readers) /\ readers' # readers

\* the hand-off queue is as it was or one notice longer
HandedOverAtMostOne ==
    IF variant = "V3"
    THEN /\ tkq' = tkq
         /\ \/ message_queue' = message_queue
            \/ /\ message_queue' = Append(message_queue, message_queue'[Len(message_queue')])
               /\ message_queue'[Len(message_queue')][1] \in {"serial", "error"}
    ELSE /\ message_queue' = message_queue
         /\ \/ tkq' = tkq
            \/ /\ tkq' = Append(tkq, tkq'[Len(tkq')])
               /\ tkq'[Len(tkq')].fn \in {"process_serial_data", "log_message"}

\* C16: in both variants a step of the background reader thread leaves Device State
\* and the log (all of gui) as they were, writes nothing to the port and changes no
\* connection field; it only hands a line or an error notice to the interactive
\* thread.  Every change of Device State or of the log is therefore a step of the
\* interactive thread.
C16_ReaderOnlyHandsOver ==
    [][/\ ReaderStepTaken => gui' = gui /\ tx' = tx /\ UNCHANGED connVars /\ HandedOverAtMostOne
       /\ gui' # gui => ~ReaderStepTaken]_vars

\* V1: the reader has handed over a line that the interactive thread has not yet
\* dispatched; Device State and the log show nothing of it
C16_Witness ==
    /\ variant = "V1"
    /\ handed = <<T_TOTAL \o <<"2">>>>
    /\ dispatched = <<>>
    /\ Len(tkq) = 1
    /\ gui.total_devices = 0
    /\ Len(gui.log_text) = 1

(***************************************************************************)
(* The log scenario: the device sends lines that the DEBUG filter and the  *)
(* error branches tell apart, the user toggles the filter and clears the   *)
(* log.                                                                    *)
(***************************************************************************)
LogLines ==
    {T_DEBUG \o <<"x", "\r">>,
     T_ERR \o T_DEBUG \o <<"\r">>,
     T_ERROR \o T_DEBUG \o <<"\r">>,
     T_EMERGENCY \o T_DEBUG \o <<"\r">>,
     T_TOTAL \o <<"2", "\r">>,
     T_STATE \o <<"x", "\r">>,
     T_INA226 \o <<"x", "\r">>}

NextLog ==
    \/ Internal(V3_try_auto_connect(TRUE))
    \/ Internal(V1_scheduled_toggle_connection(TRUE, FALSE))
    \/ Internal(ReaderIdle)
    \/ DeviceMove(MaxRx, ReaderReads(LogLines))
    \/ Internal(V3_process_queue)
    \/ Internal(V1_tk_callback(FALSE))
    \/ UserMove(V3_toggle_debug_filter)
    \/ UserMove(V3_clear_log)
    \/ UserMove(V1_toggle_filter_debug)
    \/ UserMove(V1_clear_log)
    \/ UserMove(\E outcome \in {"cancelled", "written", "failed"} :
                    \E k \in 0..MaxRx : V3_export_log(outcome, k))

SpecLog == Init /\ [][NextLog]_vars

\* the text of a log_buffer entry after its timestamp and the space
EntryMessage(e) == SubSeq(e[1], Len(Stamp3) + 2, Len(e[1]))

\* the entries of `buffer` the widget shows when the filter flag is `flag`: all of
\* them when it is off, those without "DEBUG:" when it is on; each as one line
VisibleEntries(buffer, flag) ==
    LET Passes(e) == ~flag \/ ~Contains(EntryMessage(e), T_DEBUG)
        kept == SelectSeq(buffer, Passes)
    IN  [i \in 1..Len(kept) |-> <<kept[i][1] \o <<NL>>, kept[i][2]>>]

\* the user flipped the V3 filter checkbutton in this step
FilterToggled == ev'.op = "refresh_log_display" /\ gui'.debug_filter_var # gui.debug_filter_var

\* C17: in V3, after any sequence of log appends and filter toggles the displayed
\* entries are exactly the entries of log_buffer that pass the current filter, in
\* buffer order, and a toggle never changes log_buffer; so toggling the filter off
\* and on again shows what continuous filtering would show.
C17_DisplayIsFilteredBuffer ==
    [][/\ variant = "V3" =>
              gui'.log_text = VisibleEntries(gui'.log_buffer, gui'.debug_filter_var)
       /\ FilterToggled => gui'.log_buffer = gui.log_buffer]_vars

\* V3: the filter was switched off and on again after a DEBUG line had been logged;
\* the buffer keeps the line, the display hides it again
C17_Witness ==
    /\ variant = "V3"
    /\ ev.op = "refresh_log_display"
    /\ nuser = 2
    /\ gui.debug_filter_var
    /\ \E i \in 1..Len(gui.log_buffer) : Contains(gui.log_buffer[i][1], T_DEBUG)
    /\ Len(gui.log_text) < Len(gui.log_buffer)
    /\ Len(gui.log_text) > 0

\* the V1 log still begins with the entry of the connect: it has not been cleared
\* since
V1_LogNotCleared ==
    gui.log_text # <<>> /\ Contains(gui.log_text[1], <<" Connected to ">>)

\* some line the V1 widget holds contains `text`
V1_LogShows(text) == \E j \in 1..Len(gui.log_text) : Contains(gui.log_text[j], text)

\* C18: in V1, a DEBUG line suppressed from live display while the filter was
\* enabled is retained: once the filter is disabled (and the log has not been
\* cleared) every DEBUG line that was dispatched is visible in the log.
C18_V1FilteredDebugRetained ==
    (variant = "V1" /\ ~gui.debug_filter_var /\ V1_LogNotCleared) =>
        \A i \in 1..Len(dispatched) :
            StartsWith(dispatched[i], T_DEBUG) => V1_LogShows(dispatched[i])

\* the log still begins with the entry of the connect: it has not been cleared
LogNotCleared ==
    IF variant = "V1" THEN V1_LogNotCleared
    ELSE gui.log_buffer # <<>> /\ Contains(gui.log_buffer[1][1], <<"Connected to ">>)

\* some line the log widget displays contains `text`
LogShows(text) ==
    IF variant = "V1" THEN V1_LogShows(text)
    ELSE \E j \in 1..Len(gui.log_text) : Contains(gui.log_text[j][1], text)

\* the lines the dispatcher classifies as errors or emergencies
IsErrorLine(line) ==
    IF variant = "V3"
    THEN StartsWith(line, T_ERR) \/ StartsWith(line, T_ERROR)
    ELSE StartsWith(line, T_ERR) \/ StartsWith(line, T_EMERGENCY)

\* C19: in both variants an inbound line beginning with "ERR:" or "ERROR:" (V3),
\* "ERR:" or "EMERGENCY:" (V1) has a visible log entry whether or not the DEBUG
\* filter is enabled, even when the line contains "DEBUG:" (as long as the log has
\* not been cleared).
C19_ErrorLinesAlwaysVisible ==
    LogNotCleared =>
        \A i \in 1..Len(dispatched) : IsErrorLine(dispatched[i]) => LogShows(dispatched[i])

\* What does hold: V1 shows every such line, and V3 shows it while the filter is off.
ErrorLinesVisibleUnlessV3Filter ==
    (LogNotCleared /\ (variant = "V1" \/ ~gui.debug_filter_var)) =>
        \A i \in 1..Len(dispatched) : IsErrorLine(dispatched[i]) => LogShows(dispatched[i])

\* some entry the log retains (V3: log_buffer, V1: the text widget) contains `text`
LogRetains(text) ==
    IF variant = "V1" THEN V1_LogShows(text)
    ELSE \E j \in 1..Len(gui.log_buffer) : Contains(gui.log_buffer[j][1], text)

\* C20: in both variants every inbound line handed to the dispatcher is consumed
\* exactly once and its text is retained verbatim in the log: whatever its tag
\* (TOTAL:, STATE:, INA226:, DEBUG: included), the log retains an entry that
\* contains the raw line (as long as the log has not been cleared).
C20_EveryLineRetained ==
    /\ handed = dispatched \o PendingLines
    /\ LogNotCleared =>
           \A i \in 1..Len(dispatched) : LogRetains(dispatched[i])

\* What does hold: V3 retains every dispatched line in log_buffer.
V3_EveryLineRetained ==
    (variant = "V3" /\ LogNotCleared) =>
        \A i \in 1..Len(dispatched) : LogRetains(dispatched[i])

(***************************************************************************)
(* The consumer scenario: the device sends well-formed and malformed       *)
(* numeric lines; the Tk main loop keeps running its timers and callbacks. *)
(***************************************************************************)
StallLines ==
    {T_TOTAL \o <<"a", "\r">>,
     T_TOTAL \o <<"\r">>,
     T_GROUP_TOTAL \o <<"-", "\r">>,
     T_FRAME_COUNT \o <<"2", ":", "5", "\r">>,
     T_INTERFRAME_DELAY \o <<"a", "\r">>,
     T_TOTAL \o <<"2", "\r">>,
     T_STATE \o <<"x", "\r">>}

NextConsumer ==
    \/ Internal(V3_try_auto_connect(TRUE))
    \/ Internal(V1_scheduled_toggle_connection(TRUE, FALSE))
    \/ Internal(ReaderIdle)
    \/ DeviceMove(MaxRx, ReaderReads(StallLines))
    \/ Internal(V3_process_queue)
    \/ Internal(V1_tk_callback(FALSE))

\* root.mainloop() runs every due timer (V3: root.after(50, process_queue)) and
\* every callback queued with root.after(0, ...) (V1)
SpecConsumer ==
    /\ Init
    /\ [][NextConsumer]_vars
    /\ WF_vars(Internal(V3_process_queue))
    /\ WF_vars(Internal(V1_tk_callback(FALSE)))

\* C21: in both variants no inbound line stalls the consumer: whatever the payload
\* of a line, every line handed off (that line and every later one) is eventually
\* dispatched, and in V3 process_queue is always scheduled again.
C21_NoLineStallsConsumer ==
    /\ [](variant = "V3" => timers.process_queue > 0)
    /\ \A n \in 1..MaxRx : (Len(handed) >= n) ~> (Len(dispatched) >= n)

\* a line with a malformed number was dispatched and the line handed off after it
\* was dispatched too
C21_Witness ==
    /\ Len(dispatched) = 2
    /\ dispatched[1] = T_TOTAL \o <<"a">>
    /\ dispatched[2] = T_TOTAL \o <<"2">>
    /\ gui.total_devices = 2

(***************************************************************************)
(* Further properties of the dispatcher scenario.                          *)
(***************************************************************************)
\* C22: in both variants, dispatching "STATE:<s>" sets system_state to the entire
\* text after the first colon, for every s, one that itself contains ':' included.
C22_StateIsWholePayload ==
    [][Dispatches(T_STATE) => gui'.system_state = DispatchedPayload(T_STATE)]_vars

\* the same for V3 alone
C22_StateIsWholePayloadV3 ==
    [][(variant = "V3" /\ Dispatches(T_STATE)) =>
          gui'.system_state = DispatchedPayload(T_STATE)]_vars

\* a state text with a ':' in it has been dispatched and taken whole
C22_WitnessV3 ==
    /\ variant = "V3"
    /\ dispatched # <<>>
    /\ dispatched[Len(dispatched)] = T_STATE \o <<"a", ":">>
    /\ gui.system_state = <<"a", ":">>

(***************************************************************************)
(* Further properties of the command scenario.                             *)
(***************************************************************************)
\* the log of the variant: V3 keeps log_buffer, V1 only the text widget
LogOf(g) == IF variant = "V3" THEN g.log_buffer ELSE g.log_text

\* the entry send_command logs for a written command: ">> command" tagged "info"
\* in V3, "-> command" (with the arrow U+2192) in V1
OutgoingEntry(command) ==
    IF variant = "V3"
    THEN <<Stamp3 \o <<" ", ">> ">> \o command, "info">>
    ELSE <<"[">> \o Stamp1 \o <<"]", " ", "U+2192", " ">> \o command \o <<NL>>

\* e is an outgoing entry, whatever the command
IsOutgoingEntry(e) ==
    IF variant = "V3"
    THEN StartsWith(e[1], Stamp3 \o <<" ", ">> ">>)
    ELSE StartsWith(e, <<"[">> \o Stamp1 \o <<"]", " ", "U+2192", " ">>)

\* the entries the step appended to the log, << >> when it did anything else
AddedEntries ==
    IF /\ Len(LogOf(gui')) >= Len(LogOf(gui))
       /\ SubSeq(LogOf(gui'), 1, Len(LogOf(gui))) = LogOf(gui)
    THEN SubSeq(LogOf(gui'), Len(LogOf(gui)) + 1, Len(LogOf(gui')))
    ELSE <<>>

NoOutgoingAdded ==
    /\ CountIn(LogOf(gui'), IsOutgoingEntry) = CountIn(LogOf(gui), IsOutgoingEntry)
    /\ CountIn(AddedEntries, IsOutgoingEntry) = 0

\* the messageboxes of the range checks
ValidationDialogs ==
    {"Invalid Angle", "Invalid Current", "Invalid Exposure", "Invalid Group",
     "Invalid Frame Count", "Invalid Delay"}

\* the command of a write: the written text without its final newline
WrittenCommand(w) == SubSeq(w.data, 1, Len(w.data) - 1)

NextState ==
    \/ Internal(V3_try_auto_connect(TRUE))
    \/ Internal(V3_auto_request_status(FALSE))
    \/ Internal(V1_scheduled_toggle_connection(TRUE, FALSE))
    \/ Internal(V1_scheduled_get_status(FALSE))
    \/ Internal(ReaderIdle)
    \/ DeviceMove(MaxFeed, ReaderReads(StallLines))
    \/ Internal(V3_process_queue)
    \/ Internal(V1_tk_callback(FALSE))
    \/ EditMove(V3_edit_group_total(3, TRUE))
    \/ EditMove(V3_edit_frame(1000, 10))
    \/ CommandMove(V3_SystemCommand)
    \/ CommandMove(\E angle \in Angles : V3_send_servo_command(angle, FALSE))
    \/ CommandMove(\E current \in Currents : \E exposure \in Exposures :
                       V3_send_program_command(current, exposure, FALSE))
    \/ CommandMove(V3_send_frame_command(FALSE))
    \/ CommandMove(V1_SystemCommand)
    \/ CommandMove(\E angle \in Angles : V1_set_servo(angle, FALSE))
    \/ CommandMove(\E current \in Currents : V1_set_current(current, FALSE))
    \/ UserMove(V1_run_demo("dance"))
    \/ Internal(\E i \in 1..MaxDemoThreads : V1_run_demo_thread(i))

SpecState == Init /\ [][NextState]_vars

\* the Device State fields: the device count, the system state, the INA226 status
\* (V1), and the group total, frame count and interframe delay (V3)
DeviceState(g) ==
    <<g.total_devices, g.system_state, g.ina226_status, g.group_total_var,
      g.frame_count_var, g.interframe_delay_var>>

\* the fields no entry widget is bound to
ReportedState(g) == <<g.total_devices, g.system_state, g.ina226_status>>

\* this step runs a command path: a command handler, the status request scheduled
\* after connecting, or a command a demo thread queued
CommandPathStep ==
    \/ ncmd' = ncmd + 1
    \/ ev' # ev /\ ev'.op \in {"auto_request_status", "get_status"}
    \/ RunsDemoCommand

\* this step dispatches inbound lines: one in V1, all that are queued in V3
DispatcherStep == Len(dispatched') > Len(dispatched)

C25_TotalNonNegative == gui.total_devices \in Nat

(***************************************************************************)
(* The current scenario (V1): the client connects by itself, the device    *)
(* reports its devices, the user picks a target and sets a current.        *)
(***************************************************************************)
NextCurrent ==
    \/ Internal(V3_try_auto_connect(TRUE))
    \/ Internal(V1_scheduled_toggle_connection(TRUE, FALSE))
    \/ Internal(ReaderIdle)
    \/ DeviceMove(MaxFeed, ReaderReads(StallLines))
    \/ Internal(V3_process_queue)
    \/ Internal(V1_tk_callback(FALSE))
    \/ EditMove(\E mode \in {"all", "individual"} : V1_update_current_device_list(mode))
    \/ EditMove(\E k \in 1..Len(gui.current_device_values) : V1_select_current_device(k))
    \/ CommandMove(\E current \in Currents : \E wfail \in BOOLEAN :
                       V1_set_current(current, wfail))

SpecCurrent == Init /\ [][NextCurrent]_vars

\* a decimal integer as str() writes it: no '+', no leading zero, no "-0"
IsCanonicalInt(p) ==
    /\ IsDecimalInt(p)
    /\ p[1] # "+"
    /\ (Len(p) > 1 => p[1] # "0")
    /\ ~(Len(p) > 1 /\ p[1] = "-" /\ p[2] = "0")

\* data is exactly "<device>,current,<ma>" followed by one newline
IsCurrentLine(data, device, ma) ==
    LET k == Len(device)
        digits == SubSeq(data, k + 2, Len(data) - 1)
    IN  /\ Len(data) >= k + 3
        /\ SubSeq(data, 1, k) = device
        /\ data[k + 1] = ",current,"
        /\ IsCanonicalInt(digits)
        /\ ParseInt(digits).val = ma
        /\ data[Len(data)] = "\n"

\* C26: in V1, set_current with target mode "all" writes exactly
\* "000,current,<ma>", and with target mode "individual" exactly
\* "<selected device>,current,<ma>"; the written line followed by a single
\* newline is the whole of what is written.
C26_V1CurrentLine ==
    [][(CmdStep("set_current") /\ is_connected)
          => /\ Wrote
             /\ IsCurrentLine(LastData(tx'),
                              IF gui.current_target_var = "all" THEN <<"0", "0", "0">>
                              ELSE gui.current_device_var,
                              ev'.arg[1])
      ]_vars

\* device 001 was selected and addressed
C26_Witness ==
    /\ variant = "V1"
    /\ ev.op = "set_current"
    /\ gui.current_target_var = "individual"
    /\ tx # <<>>
    /\ LastData(tx) = <<"0", "0", "1", ",current,", "1", "5", "0", "0", "\n">>

(***************************************************************************)
(* Further properties of the log scenario.                                 *)
(***************************************************************************)
\* this step is the Clear Log button
ClearLogStep == nuser' = nuser + 1 /\ ev'.op = "clear_log"

\* s is the beginning of t
IsPrefix(s, t) == Len(s) <= Len(t) /\ SubSeq(t, 1, Len(s)) = s

\* C27: in V3 the log buffer is append-only: every operation other than clear_log
\* leaves log_buffer unchanged or extends it at the end, never reordering,
\* altering or removing an entry; clear_log leaves log_buffer and the display
\* empty.
C27_V3BufferAppendOnly ==
    [][variant = "V3" =>
          IF ClearLogStep
          THEN gui'.log_buffer = <<>> /\ gui'.log_text = <<>>
          ELSE IsPrefix(gui.log_buffer, gui'.log_buffer)
      ]_vars

\* the filter was switched on over a buffer of three entries, one of them hidden,
\* and the buffer kept all three
C27_Witness ==
    /\ variant = "V3"
    /\ ev.op = "refresh_log_display"
    /\ Len(gui.log_buffer) = 3
    /\ Len(gui.log_text) = 2

(***************************************************************************)
(* Properties of the exported file.                                        *)
(***************************************************************************)
\* the lines of a text, each without the newline that ends it; what follows the
\* last newline, if anything, is a line too
ReadLines(text) ==
    LET ends == {i \in 1..Len(text) : text[i] = "\n"}
        n == Cardinality(ends)
        endOf(j) == CHOOSE i \in ends : Cardinality({e \in ends : e < i}) = j - 1
        startOf(j) == IF j = 1 THEN 1 ELSE endOf(j - 1) + 1
        whole == [j \in 1..n |-> SubSeq(text, startOf(j), endOf(j) - 1)]
        last == IF n = 0 THEN 0 ELSE endOf(n)
    IN  IF last < Len(text)
        THEN Append(whole, SubSeq(text, last + 1, Len(text)))
        ELSE whole

\* the messages of the buffer, in order
BufferMessages(buffer) == [i \in 1..Len(buffer) |-> buffer[i][1]]

\* this step is an export_log that wrote its file
ExportedStep == nuser' = nuser + 1 /\ ev'.op = "export_log" /\ ev'.dialog = "Success"

\* C28: in V3, export_log writes every retained log entry, the entries hidden by
\* the DEBUG filter included, one per line in insertion order: the lines of the
\* exported file are exactly the messages of log_buffer.
C28_V3ExportIsBuffer ==
    [][ExportedStep =>
          /\ ReadLines(exported') = BufferMessages(gui.log_buffer)
          /\ gui' = gui
      ]_vars

\* a file was written while the filter hid one of three entries
C28_Witness ==
    /\ ev.op = "export_log"
    /\ ev.dialog = "Success"
    /\ Len(gui.log_buffer) = 3
    /\ Len(gui.log_text) = 2
    /\ Len(ReadLines(exported)) = 3

(***************************************************************************)
(* Properties of the disconnect operation.                                 *)
(***************************************************************************)
\* this step ends a disconnect: V3 disconnect() returns or raises, V1
\* toggle_connection() has run its disconnect branch
DisconnectEnds ==
    IF variant = "V3"
    THEN mainpc \in {"joining", "closing"} /\ mainpc' = "idle"
    ELSE /\ is_connected
         /\ ev'.op = "toggle_connection"
         /\ tkq' = tkq
         /\ gui'.log_text # gui.log_text

\* C29: in both variants the disconnect operation always ends with the serial
\* handle released and is_connected false, even if releasing the handle raises.
\* (Disconnect is never invoked when already disconnected: both toggle handlers
\* connect in that case.)
C29_DisconnectAlwaysReleases ==
    [][DisconnectEnds => (~is_connected' /\ serial_port \notin open')]_vars

\* the same when close() does not raise
DisconnectReleasesUnlessCloseRaises ==
    [][(DisconnectEnds /\ ev'.arg[Len(ev'.arg)] = FALSE)
          => (~is_connected' /\ serial_port \notin open')]_vars

(***************************************************************************)
(* Properties of the lines handed over.                                    *)
(***************************************************************************)
\* this step reads a line from the open port and hands nothing over: the line was
\* empty after strip()
ReadsEmptyLine == nrx' = nrx + 1 /\ serial_port \in open /\ handed' = handed

\* C30: in both variants a received line that is empty after trimming whitespace
\* is never handed to the dispatcher: reading it changes nothing but the reader's
\* place in its loop (no queue item, no callback, no state change, no log entry),
\* and no line handed over or dispatched is empty.
C30_EmptyLineNotHandedOver ==
    [][/\ ReadsEmptyLine =>
             /\ gui' = gui
             /\ message_queue' = message_queue
             /\ tkq' = tkq
             /\ dispatched' = dispatched
             /\ tx' = tx
       /\ \A i \in 1..Len(handed') : handed'[i] # <<>>
       /\ \A i \in 1..Len(dispatched') : dispatched'[i] # <<>>
       /\ nrx' = nrx + 1 => Len(handed') <= Len(handed) + 1
      ]_vars

\* a blank line and a STATE line were read on the first connection; only the
\* STATE line reached the dispatcher and the log
C30_Witness ==
    /\ nrx = 2
    /\ nuser = 0
    /\ is_connected
    /\ handed = <<T_STATE \o <<"O", "K">>>>
    /\ dispatched = handed
    /\ Len(LogOf(gui)) = IF variant = "V3" THEN 2 ELSE 1

(***************************************************************************)
(* The restart scenario (V1): the client connects by itself; the user      *)
(* starts a demo, stops it and starts another while the demo threads run.  *)
(***************************************************************************)
\* the user presses a demo button
PressMove(A) ==
    nuser < MaxPress /\ nuser' = nuser + 1 /\ A /\ UNCHANGED <<nrx, ncmd, nedit>>

NextRestart ==
    \/ Internal(V1_scheduled_toggle_connection(TRUE, FALSE))
    \/ PressMove(\E demo_type \in DemoTypes : V1_run_demo(demo_type))
    \/ PressMove(V1_stop_demo)
    \/ Internal(\E i \in 1..MaxDemoThreads : V1_run_demo_thread(i))
    \/ Internal(V1_tk_callback(FALSE))

SpecRestart == Init /\ [][NextRestart]_vars

(***************************************************************************)
(* Properties of the restart scenario.                                     *)
(***************************************************************************)
\* demo thread i runs a demo sequence: it has not reached its finally clause
DemoSequenceRuns(i) == demos[i].pc \in {"check", "check_cycle", "schedule"}

\* demo thread i, started before the newest one, finds demo_running true in this
\* step and goes on with its sequence
OlderDemoResumes(i) ==
    /\ i < Len(demos)
    /\ demos[i].pc \in {"check", "check_cycle"}
    /\ demos'[i].pc \in {"check", "schedule"}

\* demo thread i, started before the newest one, ends in this step and clears
\* the demo_running that run_demo set for the newest one
OlderDemoClearsFlag(i) ==
    /\ i < Len(demos)
    /\ demos[i].pc = "finally"
    /\ demos'[i].pc = "done"
    /\ DemoSequenceRuns(Len(demos))
    /\ demo_running
    /\ ~demo_running'

\* C31: in V1 at most one demo thread is executing a demo sequence at any time:
\* after stop_demo followed by run_demo the demo thread started before does not
\* resume sending, and its completion does not clear demo_running for the newly
\* started demo.
C31_OneDemoAtATime ==
    [][/\ Cardinality({i \in 1..Len(demos') : demos'[i].pc = "schedule"}) <= 1
       /\ \A i \in 1..Len(demos) : ~OlderDemoResumes(i) /\ ~OlderDemoClearsFlag(i)
      ]_vars

\* the parts of C31, one by one
OlderDemoNeverResumes == [][\A i \in 1..Len(demos) : ~OlderDemoResumes(i)]_vars
OlderDemoNeverClearsFlag == [][\A i \in 1..Len(demos) : ~OlderDemoClearsFlag(i)]_vars

(***************************************************************************)
(* Properties of the writing context.                                      *)
(***************************************************************************)
\* this step is taken by a reader thread or by a demo thread
BackgroundStep ==
    \/ Len(readers') = Len(readers) /\ readers' # readers
    \/ Len(demos') = Len(demos) /\ demos' # demos

\* C32: in both variants every write to the transport is performed by the
\* interactive context: the V1 demo threads and the reader threads never call
\* the serial write themselves, and a step writes at most one line, so no two
\* writes can interleave.
C32_OnlyInteractiveWrites ==
    [][tx' # tx => (~BackgroundStep /\ Wrote)]_vars

\* a demo thread has scheduled its first command, and the interactive thread has
\* written it
C32_Witness ==
    /\ Len(demos) = 1
    /\ demos[1].idx = 1
    /\ tkq = <<>>
    /\ tx # <<>>
    /\ LastData(tx) = ServoCmd(Dev000, 60) \o <<NL>>

(***************************************************************************)
(* Properties of the addressed device.                                     *)
(***************************************************************************)
\* the device field of a written servo or program line: what precedes the keyword
DeviceField(data, keyword) == BeforeFirst(data, keyword)

\* "000" or a zero-padded 3-digit device index
IsDeviceId(field) == Len(field) = 3 /\ \A i \in 1..3 : IsDigit(field[i])

\* C33: in V3 every program and servo command written to the transport carries a
\* device field that is "000" or a zero-padded 3-digit device index; no command
\* with an empty device field is written when total_devices is 0.
C33_V3DeviceFieldPresent ==
    variant = "V3" =>
        \A i \in 1..Len(tx) :
            \A keyword \in {",servo,", ",program,{"} :
                IndexOf(tx[i].data, keyword) # 0
                    => IsDeviceId(DeviceField(tx[i].data, keyword))

\* the same for the servo commands alone
V3_ServoDeviceFieldPresent ==
    variant = "V3" =>
        \A i \in 1..Len(tx) :
            IndexOf(tx[i].data, ",servo,") # 0
                => IsDeviceId(DeviceField(tx[i].data, ",servo,"))

(***************************************************************************)
(* Properties of the written lines (V1).                                   *)
(***************************************************************************)
\* line is "<dev>,<keyword>,<n>": a device id, the keyword between commas, and a
\* decimal integer
IsDeviceCommand(line, keyword) ==
    /\ IndexOf(line, keyword) = 4
    /\ IsDeviceId(SubSeq(line, 1, 3))
    /\ IsCanonicalInt(SubSeq(line, 5, Len(line)))

\* the outbound command grammar of V1
V1_Grammar(line) ==
    \/ line \in {<<"status">>, <<"reinit">>, <<"emergency">>}
    \/ IsDeviceCommand(line, ",servo,")
    \/ IsDeviceCommand(line, ",current,")

TotalLines ==
    {T_TOTAL \o <<"2", "\r">>,
     T_TOTAL \o <<"1", "\r">>,
     T_TOTAL \o <<"0", "\r">>}

NextSelect ==
    \/ Internal(V3_try_auto_connect(TRUE))
    \/ Internal(V1_scheduled_toggle_connection(TRUE, FALSE))
    \/ Internal(ReaderIdle)
    \/ DeviceMove(MaxRx, ReaderReads(TotalLines))
    \/ Internal(V3_process_queue)
    \/ Internal(V1_tk_callback(FALSE))
    \/ EditMove(\E mode \in {"all", "individual"} : V3_update_servo_device_state(mode))
    \/ EditMove(\E k \in 1..Len(gui.servo_device_values) : V3_select_servo_device(k))
    \/ EditMove(\E mode \in {"all", "individual"} : V1_update_servo_device_list(mode))
    \/ EditMove(\E k \in 1..Len(gui.servo_device_values) : V1_select_servo_device(k))
    \/ EditMove(\E mode \in {"all", "individual"} : V1_update_current_device_list(mode))
    \/ EditMove(\E k \in 1..Len(gui.current_device_values) : V1_select_current_device(k))
    \/ CommandMove(V3_send_servo_command(90, FALSE))
    \/ CommandMove(V1_set_servo(90, FALSE))
    \/ CommandMove(V1_set_current(0, FALSE))

SpecSelect == Init /\ [][NextSelect]_vars

\* the device index a servo / current command would be addressed to
ServoDeviceIndex ==
    IF variant = "V3"
    THEN ParseInt(BeforeFirst(gui.servo_device_var, " ")).val
    ELSE ParseInt(gui.servo_device_var).val

CurrentDeviceIndex == ParseInt(gui.current_device_var).val

\* {000} plus 001..total, as the variant writes the entries of its comboboxes
SelectableDevices(total) ==
    IF variant = "V3"
    THEN <<AllEntry>> \o DeviceEntries(total)
    ELSE V1_device_list(total)

\* no dispatch and no queued list update is pending
ListsSettled == message_queue = <<>> /\ tkq = <<>>

\* C35: in both variants, after any sequence of TOTAL: updates and device
\* selections, the selected servo device (and in V1 the selected current device)
\* lies in 000..totalDevices and the selectable device list is {000} plus
\* 001..totalDevices, so no command is addressed to a device index greater than
\* totalDevices.
C35_SelectionWithinTotal ==
    ListsSettled =>
        /\ ServoDeviceIndex \in 0..gui.total_devices
        /\ gui.servo_device_values = SelectableDevices(gui.total_devices)
        /\ variant = "V1" =>
               /\ CurrentDeviceIndex \in 0..gui.total_devices
               /\ gui.current_device_values = SelectableDevices(gui.total_devices)

\* V3 alone: a servo command is never written to a device index above total_devices
V3_ServoWithinTotal ==
    [][(variant = "V3" /\ Wrote /\ ev'.op = "send_servo_command") =>
           ParseInt(BeforeFirst(tx'[Len(tx')].data, ",servo,")).val <= gui.total_devices]_vars

\* V1 alone: a servo or current command is never written to a device index above
\* total_devices
V1_CommandWithinTotal ==
    [][(variant = "V1" /\ Wrote /\ ev'.op \in {"set_servo", "set_current"}) =>
           ParseInt(SubSeq(tx'[Len(tx')].data, 1, 3)).val <= gui.total_devices]_vars

(***************************************************************************)
(* Properties of the scheduled connection (V1).                            *)
(***************************************************************************)
\* the step runs a toggle_connection that refresh_ports put under root.after
ScheduledToggleRuns ==
    variant = "V1" /\ timers'.toggle_connection < timers.toggle_connection

\* C36: in V1 a toggle_connection scheduled by refresh_ports only ever opens a
\* connection: when the client is already connected as the scheduled call runs,
\* the live connection stays open.
C36_ScheduledToggleOnlyOpens ==
    [][(ScheduledToggleRuns /\ is_connected) =>
           (is_connected' /\ serial_port' = serial_port /\ serial_port' \in open')]_vars

(***************************************************************************)
(* Properties of the inbound queue across connections (V3).                *)
(***************************************************************************)
\* C37: in V3 no line is folded into Device State after the connection that
\* received it has been closed: while the client is disconnected no step changes
\* total_devices, system_state or the mirrored group / frame fields.
C37_NoDispatchWhileDisconnected ==
    [][(variant = "V3" /\ ~is_connected /\ nconn > 0) =>
           DeviceState(gui') = DeviceState(gui)]_vars

(***************************************************************************)
(* Properties of the connection flag.                                      *)
(***************************************************************************)
\* the client holds a serial.Serial object whose handle is open
HoldsOpenHandle == serial_port # 0 /\ serial_port \in open

\* C38: in both variants, whenever the interactive thread is between two of its
\* steps, is_connected is true exactly when the client holds an open serial
\* handle.
C38_ConnectedIffOpenHandle ==
    mainpc = "idle" => (is_connected <=> HoldsOpenHandle)

\* the client disconnected and connected again, and its flag and handle agree
C38_Witness ==
    /\ mainpc = "idle"
    /\ nconn > 1
    /\ is_connected
    /\ HoldsOpenHandle
    /\ ev.op \in {"connect", "toggle_connection"}

(***************************************************************************)
(* The healthy scenario: every open succeeds, no read and no close fails   *)
(* by itself; the user connects and disconnects while the device sends     *)
(* RxLines.                                                                *)
(***************************************************************************)
NextHealthy ==
    \/ UserMove(V3_toggle_connection(TRUE))
    \/ Internal(V3_try_auto_connect(TRUE))
    \/ Internal(\E timed_out \in BOOLEAN : V3_disconnect_end(timed_out, FALSE))
    \/ Internal(V3_process_queue)
    \/ UserMove(V1_toggle_connection(TRUE, FALSE))
    \/ Internal(V1_scheduled_toggle_connection(TRUE, FALSE))
    \/ Internal(V1_tk_callback(FALSE))
    \/ Internal(ReaderIdle)
    \/ DeviceMove(MaxRx, ReaderReads(RxLines))

SpecHealthy == Init /\ [][NextHealthy]_vars

\* the log shows a read error
ReadErrorLogged ==
    \E k \in 1..Len(gui.log_text) :
        IF variant = "V3"
        THEN IsV3ReadErrorEntry(gui.log_text[k])
        ELSE IsV1ReadErrorEntry(gui.log_text[k])

\* C39: in both variants a disconnect the user starts on a healthy connection
\* never produces a read-error log entry, under every interleaving of the
\* disconnect with the reader loop.
C39_NoReadErrorOnDisconnect == ~ReadErrorLogged

\* V1 alone, and V3 alone
V1_NoReadErrorOnDisconnect == variant = "V1" => ~ReadErrorLogged
V3_NoReadErrorOnDisconnect == variant = "V3" => ~ReadErrorLogged

(***************************************************************************)
(* The group scenario (V3): the client connects by itself, the device      *)
(* reports its devices and its number of groups more than once, the user   *)
(* picks a group and sends a program.                                      *)
(***************************************************************************)
GroupLines ==
    {T_TOTAL \o <<"1", "\r">>,
     T_GROUP_TOTAL \o <<"0", "\r">>,
     T_GROUP_TOTAL \o <<"1", "\r">>,
     T_GROUP_TOTAL \o <<"2", "\r">>}

NextGroup ==
    \/ Internal(V3_try_auto_connect(TRUE))
    \/ Internal(ReaderIdle)
    \/ DeviceMove(MaxRx, ReaderReads(GroupLines))
    \/ Internal(V3_process_queue)
    \/ EditMove(\E k \in 1..Len(gui.group_id_values) : V3_select_group_id(k))
    \/ CommandMove(V3_send_program_command(0, 10, FALSE))

SpecGroup == Init /\ [][NextGroup]_vars

\* the line dispatched last in this step is "GROUP_TOTAL:<n>" with n an integer
DispatchesGroupTotalLast ==
    /\ variant = "V3"
    /\ DispatcherStep
    /\ LET last == dispatched'[Len(dispatched')]
       IN  /\ StartsWith(last, T_GROUP_TOTAL)
           /\ IsDecimalInt(SubSeq(last, Len(T_GROUP_TOTAL) + 1, Len(last)))

\* C40: in V3, after dispatching any "GROUP_TOTAL:<n>" line the selected group id
\* satisfies 1 <= group id <= group total.
C40_GroupIdWithinTotal ==
    [][DispatchesGroupTotalLast =>
           ParseInt(gui'.group_id_var).val \in 1..gui'.group_total_var]_vars

\* a Program issued when a "GROUP_TOTAL:<n>" line was the last one dispatched is
\* not rejected by the group-range check
ProgramAfterGroupTotalAccepted ==
    [][(/\ variant = "V3"
        /\ dispatched # <<>>
        /\ StartsWith(dispatched[Len(dispatched)], T_GROUP_TOTAL)
        /\ ncmd' = ncmd + 1
        /\ ev'.op = "send_program_command") =>
           ev'.dialog # "Invalid Group"]_vars
====
